---- MODULE Spec2Model ----
(***************************************************************************)
(* Model of the Binary-Options-Winrate-Analyzer: the dataframe pipeline    *)
(* (preprocess_data, calculate_max_streak, calculate_asset_streaks,        *)
(* calculate_main_metrics, calculate_day_stats, calculate_asset_stats,     *)
(* apply_otc_filter, the rolling win-rate), the exchange-rate cache        *)
(* (get_exchange_rate), the configuration (analyzer.config) and the        *)
(* console dialogues (select_files, _parse_selection,                      *)
(* choose_expiration_filter, choose_time_period_filter, the prompt loops,  *)
(* handle_currency_conversion, the run of main()).                         *)
(*                                                                         *)
(* A frame is a sequence of rows.  Money is kept in whole units; a float   *)
(* quotient a / b is kept exact as the record [num |-> a, den |-> b], and  *)
(* float("inf") is the value Inf.  Time of day is an integer tick, the     *)
(* clock of the exchange-rate cache counts minutes.  A string that is      *)
(* parsed is the sequence of its characters.                               *)
(***************************************************************************)
EXTENDS Integers, Sequences, FiniteSets, TLC

VARIABLES df, df_sorted, current_balance, cache, fetched, now, op, out,
          trades, files, pc, prompts

\* the state of the console dialogues: the 'trades' folder, the files offered,
\* the position of the running dialogue and the number of prompts it has shown
dialogue == <<trades, files, pc, prompts>>

vars == <<df, df_sorted, current_balance, cache, fetched, now, op, out, dialogue>>

(*************************** bounds of the model ***************************)
MaxLen == 3
MaxTime == 3
MaxProfit == 1
MaxBalance == 2
MaxRate == 1
MaxNow == 6

(****************************** value domains ******************************)
Results == {"Win", "Loss"}
Currencies == {"USD", "RUB"}
Profits == (0 - MaxProfit)..MaxProfit
Times == 1..MaxTime

\* One trade of the frame: 'Время открытия', 'Прибыль' / 'Прибыль числом',
\* 'Результат', 'Валюта'.
Row == [time : Times, profit : Profits, result : Results \cup {""}, currency : Currencies]

\* the frames of at most MaxLen rows drawn from a set of rows
FramesOf(rows) == UNION {[1..n -> rows] : n \in 0..MaxLen}

Balances == 1..MaxBalance

\* Python's None, and a value v that is not None
None == << >>
Some(v) == <<v>>

\* no exception was raised
Ok == "ok"

\* float("inf")
Inf == [inf |-> TRUE]
IsInf(x) == "inf" \in DOMAIN x

(***************************** numeric helpers *****************************)
Abs(x) == IF x < 0 THEN 0 - x ELSE x

\* a / b as Python computes it, kept as an exact fraction.
Div(a, b) == [num |-> a, den |-> b]

\* x * k for a fraction x.
Mul(x, k) == [num |-> x.num * k, den |-> x.den]

\* integer literal as a fraction
Num(a) == [num |-> a, den |-> 1]

\* equality of two fractions with non-zero denominators
RatEq(x, y) == x.num * y.den = y.num * x.den

RECURSIVE SumSeq(_)
SumSeq(s) == IF s = << >> THEN 0 ELSE s[1] + SumSeq(Tail(s))

\* Series.cumsum()
Cumsum(s) == [i \in 1..Len(s) |-> SumSeq(SubSeq(s, 1, i))]

MaxOf(S) == CHOOSE m \in S : \A x \in S : x <= m

Column(frame, c) == [i \in 1..Len(frame) |-> frame[i][c]]

\* boolean indexing frame[mask]: the rows that satisfy the mask, in order
RECURSIVE Select(_, _)
Select(frame, mask) ==
    IF frame = << >> THEN << >>
    ELSE IF mask[1] THEN <<frame[1]>> \o Select(Tail(frame), Tail(mask))
         ELSE Select(Tail(frame), Tail(mask))

\* DataFrame.sort_values("Время открытия", ascending=...).reset_index(drop=True):
\* the default sort kind is quicksort, which is not stable, so every ordering
\* of the rows that is monotone in the open time is a possible outcome.
RECURSIVE sorted_orders(_, _, _)
sorted_orders(frame, rows, ascending) ==
    IF rows = {} THEN {<< >>}
    ELSE UNION {{<<frame[i]>> \o rest : rest \in sorted_orders(frame, rows \ {i}, ascending)} :
                  i \in {j \in rows : \A k \in rows :
                            IF ascending THEN frame[j].time <= frame[k].time
                            ELSE frame[j].time >= frame[k].time}}

\* sort_values whose result is dropped: the frame stays in row order
sort_values_not_assigned(frame, ascending) == {frame}

sort_values(frame, ascending) == sorted_orders(frame, 1..Len(frame), ascending)

(******************************* utils.py **********************************)
\* (s != s.shift()).cumsum(): the id of the run each row belongs to.
\* shift() puts NaN in front, which differs from every value.
Changes(results) ==
    Cumsum([i \in 1..Len(results) |->
        IF i = 1 THEN 1 ELSE IF results[i] # results[i - 1] THEN 1 ELSE 0])

\* the number of rows with the result, runs ignored
calculate_max_streak_count(frame, result_type) ==
    Cardinality({i \in 1..Len(frame) : frame[i].result = result_type})

calculate_max_streak(frame, result_type) ==
    LET results == Column(frame, "result")
        is_target == [i \in 1..Len(results) |-> IF results[i] = result_type THEN 1 ELSE 0]
        changes == Changes(results)
        groups == {changes[i] : i \in 1..Len(results)}
        streaks == [g \in groups |->
            SumSeq(Select(is_target, [i \in 1..Len(results) |-> changes[i] = g]))]
    IN IF groups # {} THEN MaxOf({streaks[g] : g \in groups}) ELSE 0

\* calculate_asset_streaks after its sort: group is the sorted frame.
asset_streaks_of_sorted(group) ==
    LET results == Column(group, "result")
        n == Len(group)
        Gruppa == Changes(results)
        keys == {<<Gruppa[i], results[i]>> : i \in 1..n}
        size(k) == Cardinality({i \in 1..n : <<Gruppa[i], results[i]>> = k})
        win_streaks == {size(k) : k \in {x \in keys : x[2] = "Win"}}
        loss_streaks == {size(k) : k \in {x \in keys : x[2] = "Loss"}}
    IN [Sdelok |-> n,
        Vinreyt |-> Mul(Div(Cardinality({i \in 1..n : results[i] = "Win"}), n), 100),
        Pribyl |-> SumSeq(Column(group, "profit")),
        Seriya_vin |-> IF win_streaks # {} THEN MaxOf(win_streaks) ELSE 0,
        Seriya_loss |-> IF loss_streaks # {} THEN MaxOf(loss_streaks) ELSE 0]

\* calculate_asset_streaks without its sort by open time
calculate_asset_streaks_unsorted(group) == {asset_streaks_of_sorted(group)}

\* the set of results calculate_asset_streaks(group) can produce
calculate_asset_streaks(group) ==
    {asset_streaks_of_sorted(g) : g \in sort_values(group, TRUE)}

(***************************** statistics.py *******************************)
ZeroDivisionError == "ZeroDivisionError"

\* a / b on Python ints: raises on a zero divisor
PyDiv(a, b) ==
    IF b = 0 THEN [raised |-> ZeroDivisionError]
    ELSE [raised |-> Ok, value |-> Div(a, b)]

\* wins counted by the sign of the profit instead of 'Результат'
count_wins_by_profit(frame) ==
    Len(Select(frame, [i \in 1..Len(frame) |-> frame[i].profit > 0]))

\* len(df[df["Результат"] == "Win"])
count_wins(frame) ==
    Len(Select(frame, [i \in 1..Len(frame) |-> frame[i].result = "Win"]))

\* df[df["Прибыль числом"] > 0]["Прибыль числом"]
pos_profits_of(frame) ==
    Column(Select(frame, [i \in 1..Len(frame) |-> frame[i].profit > 0]), "profit")

\* the losses taken with <= 0, so that zero profits count as losses
neg_profits_nonpositive(frame) ==
    Column(Select(frame, [i \in 1..Len(frame) |-> frame[i].profit <= 0]), "profit")

\* df[df["Прибыль числом"] < 0]["Прибыль числом"]
neg_profits_of(frame) ==
    Column(Select(frame, [i \in 1..Len(frame) |-> frame[i].profit < 0]), "profit")

calculate_main_metrics(frame) ==
    LET total_trades == Len(frame)
        wins == count_wins(frame)
        quotient == IF total_trades > 0 THEN PyDiv(wins, total_trades)
                    ELSE [raised |-> Ok, value |-> Num(0)]
        winrate == IF total_trades > 0 THEN Mul(quotient.value, 100) ELSE Num(0)
        pos_profits == pos_profits_of(frame)
        neg_profits == neg_profits_of(frame)
        profit_factor == IF neg_profits # << >>
                         THEN Div(SumSeq(pos_profits), Abs(SumSeq(neg_profits)))
                         ELSE Inf
        avg_win == IF pos_profits # << >> THEN Div(SumSeq(pos_profits), Len(pos_profits)) ELSE Num(0)
        avg_loss == IF neg_profits # << >>
                    THEN Div(Abs(SumSeq(neg_profits)), Len(neg_profits))
                    ELSE Num(0)
        total_profit == SumSeq(Column(frame, "profit"))
    IN IF quotient.raised # Ok THEN [raised |-> quotient.raised]
       ELSE [raised |-> Ok,
             total_trades |-> total_trades,
             winrate |-> winrate,
             total_profit |-> total_profit,
             profit_factor |-> profit_factor,
             avg_win |-> avg_win,
             avg_loss |-> avg_loss,
             currency |-> IF total_trades > 0 THEN frame[1].currency ELSE "USD"]

(*************************** data_processor.py *****************************)
\* a profit of zero taken as a win
with_result_nonnegative(frame) ==
    [i \in 1..Len(frame) |->
        [frame[i] EXCEPT !.result = IF frame[i].profit >= 0 THEN "Win" ELSE "Loss"]]

\* df["Результат"] = df["Прибыль"].apply(lambda x: "Win" if x > 0 else "Loss")
with_result(frame) ==
    [i \in 1..Len(frame) |->
        [frame[i] EXCEPT !.result = IF frame[i].profit > 0 THEN "Win" ELSE "Loss"]]

\* the 'Кумулятивная прибыль' and 'Баланс' columns of a frame sorted newest first
with_balance(desc, balance) ==
    LET cum == Cumsum(Column(desc, "profit"))
    IN [i \in 1..Len(desc) |->
          [time |-> desc[i].time, profit |-> desc[i].profit, result |-> desc[i].result,
           currency |-> desc[i].currency, cum |-> cum[i], balance |-> balance - cum[i]]]

\* the set of df_sorted frames preprocess_data(frame, balance) can return
preprocess_data(frame, balance) ==
    UNION {sort_values(with_balance(desc, balance), TRUE) :
              desc \in sort_values(with_result(frame), FALSE)}

(*********************** exchange rates (data_processor.py) ****************)
\* _CACHE_TTL = timedelta(minutes=5), in ticks of the clock
CACHE_TTL == 5

\* str.upper() on the letters of the currency codes
upper_char(c) ==
    CASE c = "u" -> "U" [] c = "s" -> "S" [] c = "d" -> "D"
      [] c = "e" -> "E" [] c = "r" -> "R" [] OTHER -> c

upper(code) == [i \in 1..Len(code) |-> upper_char(code[i])]

\* currency codes as the caller may spell them: the currency the rate is
\* asked for, and the currencies it is asked in
BaseCodes == {<<"u", "s", "d">>, <<"U", "S", "D">>}
TargetCodes == {<<"e", "u", "r">>, <<"E", "U", "R">>, <<"R", "U", "B">>}

\* the codes the API lists in its 'rates' map
ApiCodes == {upper(c) : c \in TargetCodes}

\* no request was made
NoResponse == [kind |-> "none", rates |-> << >>]

Rates == 0..MaxRate

\* What requests.get(url, timeout=10) and the decoding of its answer can do:
\* raise, answer with an error status, answer with a body that has no 'rates'
\* map, or answer with a 'rates' map for some of the codes.
Responses ==
    {[kind |-> k, rates |-> << >>] : k \in {"exception", "http_error", "no_rates"}}
    \cup UNION {{[kind |-> "ok", rates |-> m] : m \in [codes -> Rates]} : codes \in SUBSET ApiCodes}

\* dict.get(key): None when the key is missing
get(map, key) == IF key \in DOMAIN map THEN Some(map[key]) ELSE None

\* map[key] = value
put(map, key, value) ==
    [k \in DOMAIN map \cup {key} |-> IF k = key THEN value ELSE map[k]]

\* the key without upper(): the codes as the caller typed them
cache_key_as_typed(base_currency, target_currency) == <<base_currency, target_currency>>

\* key = (base_currency.upper(), target_currency.upper())
cache_key(base_currency, target_currency) == <<upper(base_currency), upper(target_currency)>>

\* the test with <=: an entry exactly _CACHE_TTL old still counts as fresh
is_fresh_inclusive(entry, clock) == clock - entry.timestamp <= CACHE_TTL

\* datetime.now(timezone.utc) - timestamp < _CACHE_TTL
is_fresh(entry, clock) == clock - entry.timestamp < CACHE_TTL

\* the lookup without upper(): the target code as the caller typed it
fetch_rate_as_typed(response, target_currency) ==
    IF response.kind = "ok" THEN get(response.rates, target_currency) ELSE None

\* the body of the "with suppress(Exception)" block up to the rate: None when
\* the request raised, the status was an error or the body had no 'rates'
fetch_rate(response, target_currency) ==
    IF response.kind = "ok" THEN get(response.rates, upper(target_currency)) ELSE None

\* get_exchange_rate that falls back to an expired entry when the request fails
get_exchange_rate_stale_on_error(base_currency, target_currency, store, clock, response) ==
    LET key == <<upper(base_currency), upper(target_currency)>>
        rate == IF response.kind = "ok" THEN get(response.rates, upper(target_currency)) ELSE None
    IN IF key \in DOMAIN store /\ clock - store[key].timestamp < CACHE_TTL
       THEN [result |-> Some(store[key].rate), requested |-> FALSE, store |-> store]
       ELSE IF rate # None
            THEN [result |-> rate, requested |-> TRUE,
                  store |-> put(store, key, [rate |-> rate[1], timestamp |-> clock])]
            ELSE [result |-> IF key \in DOMAIN store THEN Some(store[key].rate) ELSE None,
                  requested |-> TRUE, store |-> store]

\* the cache holds an entry for the pair that is still fresh at time clock
cache_hit(store, base_currency, target_currency, clock) ==
    LET key == cache_key(base_currency, target_currency)
    IN key \in DOMAIN store /\ is_fresh(store[key], clock)

\* get_exchange_rate(base_currency, target_currency) called at time clock,
\* the request (if one is made) being answered with response: the value
\* returned, whether a request was made, and the cache afterwards.
get_exchange_rate(base_currency, target_currency, store, clock, response) ==
    LET key == cache_key(base_currency, target_currency)
        rate == fetch_rate(response, target_currency)
    IN IF cache_hit(store, base_currency, target_currency, clock)
       THEN [result |-> Some(store[key].rate), requested |-> FALSE, store |-> store]
       ELSE IF rate # None
            THEN [result |-> rate, requested |-> TRUE,
                  store |-> put(store, key, [rate |-> rate[1], timestamp |-> clock])]
            ELSE [result |-> None, requested |-> TRUE, store |-> store]

(******************************** actions **********************************)
\* preprocess_data runs once, on the frame as loaded
PreprocessData ==
    /\ op = "none"
    /\ \E balance \in Balances :
         /\ current_balance' = balance
         /\ \E sorted \in preprocess_data(df, balance) : df_sorted' = sorted
    /\ df' = with_result(df)
    /\ op' = "preprocess_data"
    /\ out' = None
    /\ UNCHANGED <<cache, fetched, now, dialogue>>

CalculateMaxStreak ==
    /\ op = "none"
    /\ \E result_type \in Results :
         out' = [result_type |-> result_type, value |-> calculate_max_streak(df, result_type)]
    /\ op' = "calculate_max_streak"
    /\ UNCHANGED <<df, df_sorted, current_balance, cache, fetched, now, dialogue>>

CalculateAssetStreaks ==
    /\ op = "none"
    /\ Len(df) > 0
    /\ \E value \in calculate_asset_streaks(df) : out' = value
    /\ op' = "calculate_asset_streaks"
    /\ UNCHANGED <<df, df_sorted, current_balance, cache, fetched, now, dialogue>>

CalculateMainMetrics ==
    /\ op = "none"
    /\ out' = calculate_main_metrics(df)
    /\ op' = "calculate_main_metrics"
    /\ UNCHANGED <<df, df_sorted, current_balance, cache, fetched, now, dialogue>>

\* One call of get_exchange_rate; at the clock's resolution of a minute the
\* call takes no time (the request times out after 10 seconds).  fetched
\* records, per currency pair, the rate and the time of the last successful
\* request.
GetExchangeRate ==
    /\ \E base_currency \in BaseCodes, target_currency \in TargetCodes :
         \E response \in IF cache_hit(cache, base_currency, target_currency, now)
                         THEN {NoResponse} ELSE Responses :
            LET r == get_exchange_rate(base_currency, target_currency, cache, now, response)
                pair == <<upper(base_currency), upper(target_currency)>>
            IN /\ cache' = r.store
               /\ fetched' = IF r.requested /\ r.result # None
                             THEN put(fetched, pair, [rate |-> r.result[1], time |-> now])
                             ELSE fetched
               /\ out' = [base |-> base_currency, target |-> target_currency,
                          requested |-> r.requested, response |-> response,
                          result |-> r.result]
    /\ op' = "get_exchange_rate"
    /\ UNCHANGED <<df, df_sorted, current_balance, now, dialogue>>

\* a minute passes
Tick ==
    /\ now < MaxNow
    /\ now' = now + 1
    /\ op' = "tick"
    /\ out' = None
    /\ UNCHANGED <<df, df_sorted, current_balance, cache, fetched, dialogue>>

(***************************** specifications ******************************)
InitRest ==
    /\ df_sorted = << >>
    /\ current_balance = 0
    /\ cache = << >>
    /\ fetched = << >>
    /\ now = 0
    /\ op = "none"
    /\ out = None
    /\ trades = None
    /\ files = << >>
    /\ pc = "idle"
    /\ prompts = 0

\* The loaded frame: open time and profit of each trade; 'Результат' is not
\* a column yet.
InitLoaded ==
    /\ df \in FramesOf({r \in Row : r.result = "" /\ r.currency = "USD"})
    /\ InitRest

SpecPipeline == InitLoaded /\ [][PreprocessData]_vars

\* Any group of preprocessed trades of one asset: the result of a trade is
\* the one preprocess_data derives from its profit.
InitStreaks ==
    /\ df \in FramesOf({r \in Row : /\ r.currency = "USD"
                                    /\ r.result = IF r.profit > 0 THEN "Win" ELSE "Loss"})
    /\ InitRest

NextStreaks == CalculateMaxStreak \/ CalculateAssetStreaks

SpecStreaks == InitStreaks /\ [][NextStreaks]_vars

\* Any frame of results, profits and currencies; calculate_main_metrics
\* does not read the open time.
InitMetrics ==
    /\ df \in FramesOf({r \in Row : r.result \in Results /\ r.time = 1})
    /\ InitRest

SpecMetrics == InitMetrics /\ [][CalculateMainMetrics]_vars

InitRates ==
    /\ df = << >>
    /\ InitRest

NextRates == GetExchangeRate \/ Tick

SpecRates == InitRates /\ [][NextRates]_vars

(****************************** statistics.py ******************************)
MaxDate == 2
Dates == 1..MaxDate

\* One trade as calculate_day_stats reads it: 'Дата', 'Результат',
\* 'Прибыль числом'.
DayRow == [date : Dates, result : Results, profit : Profits]

\* x.round(2) of a fraction with a positive denominator: the nearest number
\* of hundredths, a tie going to the even one
round2(x) ==
    LET n == x.num * 100
        q == n \div x.den
        r == n % x.den
        h == IF 2 * r > x.den \/ (2 * r = x.den /\ q % 2 = 1) THEN q + 1 ELSE q
    IN [num |-> h, den |-> 100]

\* the keys of a groupby, in ascending order
RECURSIVE sorted_keys(_)
sorted_keys(keys) ==
    IF keys = {} THEN << >>
    ELSE LET k == CHOOSE x \in keys : \A y \in keys : x <= y
         IN <<k>> \o sorted_keys(keys \ {k})

\* the rows of one group of df.groupby(column), in frame order
group_of(frame, column, key) ==
    Select(frame, [i \in 1..Len(frame) |-> frame[i][column] = key])

\* day statistics whose 'Винрейт' is taken over the whole frame
calculate_day_stats_overall(frame) ==
    LET dates == sorted_keys({frame[i].date : i \in 1..Len(frame)})
    IN [k \in 1..Len(dates) |->
          LET x == group_of(frame, "date", dates[k])
          IN [Data |-> dates[k],
              Sdelok |-> Len(x),
              Vinreyt |-> round2(Mul(Div(count_wins(frame), Len(frame)), 100)),
              Pribyl |-> round2(Num(SumSeq(Column(x, "profit"))))]]

\* df.groupby("Дата").agg(Сделок=count, Винрейт=(x == "Win").mean() * 100,
\* Прибыль=sum).round(2): one row per date, dates ascending
calculate_day_stats(frame) ==
    LET dates == sorted_keys({frame[i].date : i \in 1..Len(frame)})
    IN [k \in 1..Len(dates) |->
          LET x == group_of(frame, "date", dates[k])
          IN [Data |-> dates[k],
              Sdelok |-> Len(x),
              Vinreyt |-> round2(Mul(Div(count_wins(x), Len(x)), 100)),
              Pribyl |-> round2(Num(SumSeq(Column(x, "profit"))))]]

CalculateDayStats ==
    /\ op = "none"
    /\ out' = calculate_day_stats(df)
    /\ op' = "calculate_day_stats"
    /\ UNCHANGED <<df, df_sorted, current_balance, cache, fetched, now, dialogue>>

InitDayStats ==
    /\ df \in FramesOf(DayRow)
    /\ InitRest

SpecDayStats == InitDayStats /\ [][CalculateDayStats]_vars

(******************* data_processor.py: choice of files ********************)
MaxInput == 4
MaxFiles == 2

ValueError == "ValueError"

\* the characters a selection is typed in
DigitChars == {"0", "1", "2", "3"}
SelectionChars == DigitChars \cup {",", " ", "-", "a"}

\* a typed line: a string is the sequence of its characters
LinesOf(chars) == UNION {[1..n -> chars] : n \in 0..MaxInput}

digit(c) == CASE c = "0" -> 0 [] c = "1" -> 1 [] c = "2" -> 2 [] c = "3" -> 3

\* s.replace(old, ""), old being one character
RECURSIVE replace(_, _)
replace(s, old) ==
    IF s = << >> THEN << >>
    ELSE IF Head(s) = old THEN replace(Tail(s), old)
         ELSE <<Head(s)>> \o replace(Tail(s), old)

\* s.split(sep): the pieces between the separators, empty pieces kept
RECURSIVE split(_, _)
split(s, sep) ==
    IF \A i \in 1..Len(s) : s[i] # sep THEN <<s>>
    ELSE LET i == CHOOSE j \in 1..Len(s) :
                      s[j] = sep /\ \A k \in 1..(j - 1) : s[k] # sep
         IN <<SubSeq(s, 1, i - 1)>> \o split(SubSeq(s, i + 1, Len(s)), sep)

\* the value of a string of decimal digits
RECURSIVE decimal(_)
decimal(d) ==
    IF d = << >> THEN 0
    ELSE decimal(SubSeq(d, 1, Len(d) - 1)) * 10 + digit(d[Len(d)])

\* int(x): an optional sign and at least one decimal digit, ValueError
\* otherwise
int(x) ==
    LET signed == x # << >> /\ x[1] \in {"+", "-"}
        body == IF signed THEN Tail(x) ELSE x
    IN IF body = << >> \/ \E i \in 1..Len(body) : body[i] \notin DigitChars
       THEN [raised |-> ValueError]
       ELSE [raised |-> Ok,
             value |-> IF signed /\ x[1] = "-" THEN 0 - decimal(body) ELSE decimal(body)]

\* the tokens with the empty ones dropped
tokens_of_nonempty(selection) ==
    SelectSeq(split(replace(selection, " "), ","), LAMBDA x : x # << >>)

\* selection.replace(" ", "").split(",")
tokens_of(selection) == split(replace(selection, " "), ",")

\* the number typed, taken as the index
file_index_as_typed(idx) == idx

\* file_index = idx - 1
file_index(idx) == idx - 1

\* the loop of _parse_selection over the tokens left, selected_indices being
\* the list built so far
RECURSIVE parse_tokens(_, _, _)
parse_tokens(tokens, n, selected_indices) ==
    IF tokens = << >> THEN [raised |-> Ok, value |-> selected_indices]
    ELSE LET x == Head(tokens)
             idx == int(x)
         IN IF x = << >> THEN [raised |-> ValueError]
            ELSE IF idx.raised # Ok THEN [raised |-> ValueError]
            ELSE IF idx.value < 1 \/ idx.value > n THEN [raised |-> ValueError]
            ELSE IF \E k \in 1..Len(selected_indices) :
                        selected_indices[k] = file_index(idx.value)
                 THEN [raised |-> ValueError]
            ELSE parse_tokens(Tail(tokens), n,
                              Append(selected_indices, file_index(idx.value)))

_parse_selection(selection, offered) ==
    parse_tokens(tokens_of(selection), Len(offered), << >>)

\* a list of n files offered, file k being the k-th newest
FilesOffered == {[k \in 1..n |-> k] : n \in 0..MaxFiles}

ParseSelection ==
    /\ op = "none"
    /\ \E selection \in LinesOf(SelectionChars), offered \in FilesOffered :
         out' = [selection |-> selection, files |-> offered,
                 result |-> _parse_selection(selection, offered)]
    /\ op' = "_parse_selection"
    /\ UNCHANGED <<df, df_sorted, current_balance, cache, fetched, now, dialogue>>

InitParse ==
    /\ df = << >>
    /\ InitRest

SpecParse == InitParse /\ [][ParseSelection]_vars

(********************* data_processor.py: OTC filter ***********************)
\* a missing value of a text column; no string of characters equals it
NaN == <<"NaN">>

\* the 'Актив' values of the model: plain and OTC assets, a lower-case
\* look-alike, a prefix of the pattern and a missing name
Assets ==
    {NaN,
     <<"E", "U">>,
     <<"E", "U", " ", "O", "T", "C">>,
     <<"o", "t", "c">>,
     <<"O", "T">>}

FilterChoices == {"1", "2", "3"}

\* the frames load_data returns: pd.concat(..., ignore_index=True) numbers the
\* rows 1.., and every row keeps its index label through a filter
IndexedFrames ==
    UNION {{[i \in 1..n |-> [index |-> i, asset |-> a[i], profit |-> p[i]]] :
                a \in [1..n -> Assets], p \in [1..n -> {0 - MaxProfit, MaxProfit}]} :
           n \in 0..MaxLen}

\* a missing name taken as a match
contains_na_true(s, pat) ==
    IF s = NaN THEN TRUE
    ELSE \E i \in 1..(Len(s) - Len(pat) + 1) : SubSeq(s, i, i + Len(pat) - 1) = pat

\* Series.str.contains(pat, na=False) on one value, pat without regex
\* metacharacters
contains(s, pat) ==
    IF s = NaN THEN FALSE
    ELSE \E i \in 1..(Len(s) - Len(pat) + 1) : SubSeq(s, i, i + Len(pat) - 1) = pat

apply_otc_filter(frame, filter_choice) ==
    IF filter_choice = "1"
    THEN Select(frame, [i \in 1..Len(frame) |-> contains(frame[i].asset, <<"O", "T", "C">>)])
    ELSE IF filter_choice = "2"
    THEN Select(frame, [i \in 1..Len(frame) |-> ~contains(frame[i].asset, <<"O", "T", "C">>)])
    ELSE frame

ApplyOtcFilter ==
    /\ op = "none"
    /\ \E filter_choice \in FilterChoices :
         out' = [filter_choice |-> filter_choice,
                 value |-> apply_otc_filter(df, filter_choice)]
    /\ op' = "apply_otc_filter"
    /\ UNCHANGED <<df, df_sorted, current_balance, cache, fetched, now, dialogue>>

InitOtc ==
    /\ df \in IndexedFrames
    /\ InitRest

SpecOtc == InitOtc /\ [][ApplyOtcFilter]_vars

(******************************** config.py ********************************)
MaxLines == 3

KeyError == "KeyError"
ParsingError == "configparser.Error"

MandatorySections == {"graph_settings", "colors", "analysis_settings"}

\* the lines of analyzer_config.ini: a section header or an option
SectionHeaders == MandatorySections \cup {"other"}
OptionLine == "option = value"
IniLines == SectionHeaders \cup {OptionLine}

\* the states of analyzer_config.ini: missing (None) or a text of some lines
IniFiles == {None} \cup {Some(text) : text \in UNION {[1..n -> IniLines] : n \in 0..MaxLines}}

\* config.read(CONFIG_FILE): a missing file is skipped; an option before the
\* first header, a section or an option met twice raise
read(ini) ==
    IF ini = None THEN [raised |-> Ok, sections |-> {}]
    ELSE LET text == ini[1]
             headers == {i \in 1..Len(text) : text[i] \in SectionHeaders}
             section_at(i) == MaxOf({h \in headers : h < i})
         IN IF \/ \E i \in 1..Len(text) :
                     text[i] = OptionLine /\ \A h \in headers : h > i
               \/ \E i, j \in headers : i < j /\ text[i] = text[j]
               \/ \E i, j \in 1..Len(text) :
                     /\ i < j
                     /\ text[i] = OptionLine /\ text[j] = OptionLine
                     /\ section_at(i) = section_at(j)
            THEN [raised |-> ParsingError]
            ELSE [raised |-> Ok, sections |-> {text[h] : h \in headers}]

\* the module body of analyzer.config: read the file, install the defaults
\* when no section was read, export COLORS = config["colors"]
import_config(ini) ==
    LET parsed == read(ini)
        sections == IF parsed.sections = {} THEN MandatorySections ELSE parsed.sections
    IN IF parsed.raised # Ok THEN [raised |-> parsed.raised]
       ELSE IF "colors" \notin sections THEN [raised |-> KeyError]
       ELSE [raised |-> Ok, sections |-> sections]

ImportConfig ==
    /\ op = "none"
    /\ \E ini \in IniFiles : out' = [ini |-> ini, config |-> import_config(ini)]
    /\ op' = "import_config"
    /\ UNCHANGED <<df, df_sorted, current_balance, cache, fetched, now, dialogue>>

InitConfig ==
    /\ df = << >>
    /\ InitRest

SpecConfig == InitConfig /\ [][ImportConfig]_vars

(********************************* plots.py ********************************)
\* the values of rolling_window_percent the model reads from the config
RollPercents == {0 - 50, 1, 10, 34, 50, 67, 100, 150}

\* int(x) of a float x: the fraction cut towards zero
trunc(x) ==
    IF x.num >= 0 THEN x.num \div x.den ELSE 0 - ((0 - x.num) \div x.den)

max(a, b) == IF a >= b THEN a ELSE b

\* (df_plot["Результат"] == "Win").astype(int)
Win_binary(frame) == [i \in 1..Len(frame) |-> IF frame[i].result = "Win" THEN 1 ELSE 0]

\* the mean of all the values up to each row, the window ignored
rolling_mean_expanding(values, window) ==
    [i \in 1..Len(values) |-> Div(SumSeq(SubSeq(values, 1, i)), i)]

\* Series.rolling(window=window, min_periods=1).mean(): the mean of the
\* values of the window that ends at each row, cut at the start of the series
rolling_mean(values, window) ==
    [i \in 1..Len(values) |->
        LET first == max(i - window + 1, 1)
        IN Div(SumSeq(SubSeq(values, first, i)), i - first + 1)]

\* the rolling win-rate of _draw_top_row
rolling_winrate(df_plot, roll_pct) ==
    LET rolling_window == max(trunc(Div(Len(df_plot) * roll_pct, 100)), 1)
        means == rolling_mean(Win_binary(df_plot), rolling_window)
    IN [rolling_window |-> rolling_window,
        Rolling_WR |-> [i \in 1..Len(df_plot) |-> Mul(means[i], 100)]]

DrawRollingWinrate ==
    /\ op = "none"
    /\ \E roll_pct \in RollPercents :
         out' = [roll_pct |-> roll_pct, plot |-> rolling_winrate(df, roll_pct)]
    /\ op' = "rolling_winrate"
    /\ UNCHANGED <<df, df_sorted, current_balance, cache, fetched, now, dialogue>>

InitRolling ==
    /\ df \in FramesOf({r \in Row : /\ r.currency = "USD"
                                    /\ r.time = 1
                                    /\ r.result = IF r.profit > 0 THEN "Win" ELSE "Loss"})
    /\ InitRest

SpecRolling == InitRolling /\ [][DrawRollingWinrate]_vars

(********************* statistics.py: asset statistics *********************)
\* the assets of the frames the asset statistics are computed from
StatAssets == {<<"E", "U">>, <<"E", "U", " ", "O", "T", "C">>}

\* One preprocessed trade with its asset: 'Актив', 'Время открытия',
\* 'Результат', 'Прибыль числом'.
AssetRow ==
    {r \in [asset : StatAssets, time : Times, result : Results,
            profit : {0 - MaxProfit, MaxProfit}] :
        r.result = IF r.profit > 0 THEN "Win" ELSE "Loss"}

\* DataFrame.sort_values("Винрейт", ascending=False) on the rows of a set:
\* every ordering with non-increasing 'Винрейт' (quicksort is not stable)
RECURSIVE orders_by_winrate(_)
orders_by_winrate(rows) ==
    IF rows = {} THEN {<< >>}
    ELSE UNION {{<<r>> \o rest : rest \in orders_by_winrate(rows \ {r})} :
                  r \in {x \in rows : \A y \in rows : x.Vinreyt.num >= y.Vinreyt.num}}

\* the set of results calculate_asset_stats(frame) can produce.  groupby(...)
\* .apply(...) of a frame without any group never calls the function and
\* hands back an empty frame with the columns of the input, which has no
\* 'Сделок' column.
calculate_asset_stats(frame) ==
    LET keys == {frame[i].asset : i \in 1..Len(frame)}
        streaks == [k \in keys |-> calculate_asset_streaks(group_of(frame, "asset", k))]
        applied == {c \in [keys -> UNION {streaks[k] : k \in keys}] :
                       \A k \in keys : c[k] \in streaks[k]}
        typed(c) == {[Aktiv |-> k,
                      Sdelok |-> c[k].Sdelok,
                      Vinreyt |-> round2(c[k].Vinreyt),
                      Pribyl |-> round2(Num(c[k].Pribyl)),
                      Seriya_vin |-> c[k].Seriya_vin,
                      Seriya_loss |-> c[k].Seriya_loss] : k \in keys}
    IN IF keys = {} THEN {[raised |-> KeyError]}
       ELSE UNION {{[raised |-> Ok, value |-> sorted] :
                        sorted \in orders_by_winrate(typed(c))} : c \in applied}

CalculateAssetStats ==
    /\ op = "none"
    /\ \E result \in calculate_asset_stats(df) : out' = result
    /\ op' = "calculate_asset_stats"
    /\ UNCHANGED <<df, df_sorted, current_balance, cache, fetched, now, dialogue>>

InitAssetStats ==
    /\ df \in FramesOf(AssetRow)
    /\ InitRest

SpecAssetStats == InitAssetStats /\ [][CalculateAssetStats]_vars

(********************************* main() **********************************)
\* the calls of a run of main() on input every dialogue accepts, load_data
\* taken first
main_calls_load_first ==
    <<"load_data", "select_files", "choose_otc_filter", "get_current_balance",
      "choose_expiration_filter", "choose_time_period_filter", "show_all_charts", "input">>

\* the calls of a run of main() on input every dialogue accepts, in order:
\* the names test_main_execution_flow replaces, in the order of the stages of
\* the program
main_calls ==
    <<"select_files", "choose_otc_filter", "load_data", "get_current_balance",
      "choose_expiration_filter", "choose_time_period_filter", "show_all_charts", "input">>

\* what select_files can return: files of the offered list, none twice
Selections ==
    {s \in UNION {[1..n -> 1..MaxFiles] : n \in 1..MaxFiles} :
        \A i, j \in 1..Len(s) : s[i] = s[j] => i = j}

\* what load_data can return for the run: a log of one trade
LoadedFrames == {frame \in IndexedFrames : Len(frame) = 1}

\* main() is about to make the call
at(call) ==
    /\ pc = "main"
    /\ Len(out.calls) < Len(main_calls)
    /\ main_calls[Len(out.calls) + 1] = call

\* the call returns
returned(call, filter_choice) ==
    /\ out' = [calls |-> Append(out.calls, call), filter_choice |-> filter_choice]
    /\ op' = call
    /\ pc' = IF Len(out.calls) + 1 = Len(main_calls) THEN "done" ELSE "main"

MainSelectFiles ==
    /\ at("select_files")
    /\ files' \in Selections
    /\ returned("select_files", out.filter_choice)
    /\ UNCHANGED <<df, df_sorted, current_balance, cache, fetched, now, trades, prompts>>

MainChooseOtcFilter ==
    /\ at("choose_otc_filter")
    /\ \E filter_choice \in FilterChoices : returned("choose_otc_filter", Some(filter_choice))
    /\ UNCHANGED <<df, df_sorted, current_balance, cache, fetched, now, trades, files, prompts>>

MainLoadData ==
    /\ at("load_data")
    /\ df' \in LoadedFrames
    /\ returned("load_data", out.filter_choice)
    /\ UNCHANGED <<df_sorted, current_balance, cache, fetched, now, trades, files, prompts>>

MainGetCurrentBalance ==
    /\ at("get_current_balance")
    /\ current_balance' \in Balances
    /\ returned("get_current_balance", out.filter_choice)
    /\ UNCHANGED <<df, df_sorted, cache, fetched, now, trades, files, prompts>>

\* the calls that hand the frame on: the two filters, the charts and the last
\* prompt
MainCall ==
    /\ \E call \in {"choose_expiration_filter", "choose_time_period_filter",
                    "show_all_charts", "input"} :
         at(call) /\ returned(call, out.filter_choice)
    /\ UNCHANGED <<df, df_sorted, current_balance, cache, fetched, now, trades, files, prompts>>

InitMain ==
    /\ df = << >>
    /\ df_sorted = << >>
    /\ current_balance = 0
    /\ cache = << >>
    /\ fetched = << >>
    /\ now = 0
    /\ op = "none"
    /\ out = [calls |-> << >>, filter_choice |-> None]
    /\ trades = None
    /\ files = << >>
    /\ pc = "main"
    /\ prompts = 0

NextMain ==
    \/ MainSelectFiles
    \/ MainChooseOtcFilter
    \/ MainLoadData
    \/ MainGetCurrentBalance
    \/ MainCall

SpecMain == InitMain /\ [][NextMain]_vars

(******************* data_processor.py: select_files ***********************)
MaxPrompts == 2

\* the characters typed at the prompts of the dialogues
TypedChars == {"1", "2", "3", ",", " ", "a"}

\* the entries the 'trades' folder can hold: a name, whether the name ends in
\* .xlsx, and the time of the last change
Mtimes == {1, 2}
Entries ==
    {e \in [name : 1..MaxFiles, xlsx : BOOLEAN, mtime : Mtimes] : e.xlsx \/ e.mtime = 2}

\* the folders: sets of entries with different names
Folders == {f \in SUBSET Entries : \A a, b \in f : a.name = b.name => a = b}

\* s.lstrip() and s.strip(), the white space being spaces
RECURSIVE lstrip(_)
lstrip(s) == IF s # << >> /\ Head(s) = " " THEN lstrip(Tail(s)) ELSE s

RECURSIVE strip(_)
strip(s) ==
    IF s # << >> /\ s[Len(s)] = " " THEN strip(SubSeq(s, 1, Len(s) - 1)) ELSE lstrip(s)

\* the orderings with the oldest file first
RECURSIVE oldest_first(_)
oldest_first(paths) ==
    IF paths = {} THEN {<< >>}
    ELSE UNION {{<<p>> \o rest : rest \in oldest_first(paths \ {p})} :
                  p \in {x \in paths : \A y \in paths : x.mtime <= y.mtime}}

\* sorted(paths, key=st_mtime, reverse=True): files changed at the same time
\* stay in the order the folder lists them, which is any order
RECURSIVE newest_first(_)
newest_first(paths) ==
    IF paths = {} THEN {<< >>}
    ELSE UNION {{<<p>> \o rest : rest \in newest_first(paths \ {p})} :
                  p \in {x \in paths : \A y \in paths : x.mtime >= y.mtime}}

\* the lists select_files can offer: files stays [] without the folder
offered_files(folder, max_files_to_show) ==
    IF folder = None THEN {<< >>}
    ELSE {SubSeq(sorted, 1, IF Len(sorted) < max_files_to_show THEN Len(sorted)
                            ELSE max_files_to_show) :
            sorted \in newest_first({e \in folder[1] : e.xlsx})}

\* select_files up to its first prompt: sys.exit() without files
SelectFilesStart ==
    /\ pc = "select_files"
    /\ \E max_files_to_show \in 1..MaxFiles :
         /\ files' \in offered_files(trades, max_files_to_show)
         /\ out' = [max_files_to_show |-> max_files_to_show,
                    selection |-> None, value |-> None]
    /\ pc' = IF files' = << >> THEN "SystemExit" ELSE "prompt"
    /\ op' = "select_files"
    /\ UNCHANGED <<df, df_sorted, current_balance, cache, fetched, now, trades, prompts>>

\* one turn of the loop of select_files: a line is typed
SelectFilesInput ==
    /\ pc = "prompt"
    /\ op = "select_files"
    /\ prompts < MaxPrompts
    /\ prompts' = prompts + 1
    /\ \E line \in LinesOf(TypedChars) :
         LET selection == strip(line)
             parsed == _parse_selection(selection, files)
         IN IF selection # << >> /\ parsed.raised = Ok
            THEN /\ pc' = "returned"
                 /\ out' = [out EXCEPT
                              !.selection = Some(line),
                              !.value = Some([k \in 1..Len(parsed.value) |->
                                                files[parsed.value[k] + 1]])]
            ELSE UNCHANGED <<pc, out>>
    /\ UNCHANGED <<df, df_sorted, current_balance, cache, fetched, now, op, trades, files>>

InitSelect ==
    /\ df = << >>
    /\ df_sorted = << >>
    /\ current_balance = 0
    /\ cache = << >>
    /\ fetched = << >>
    /\ now = 0
    /\ op = "none"
    /\ out = None
    /\ trades \in {None} \cup {Some(f) : f \in Folders}
    /\ files = << >>
    /\ pc = "select_files"
    /\ prompts = 0

NextSelect == SelectFilesStart \/ SelectFilesInput

SpecSelect == InitSelect /\ [][NextSelect]_vars

(*************** data_processor.py: choose_expiration_filter ***************)
\* a digit that is not a decimal digit: str.isdigit() accepts it, int() does
\* not
SuperscriptTwo == "²"

ExpirationChars == {"0", "1", "2", SuperscriptTwo, " ", "a"}

\* the 'Экспирация_сек' values of the trades
Expirations == {1, 2}

\* the frames the filter is asked about: logs of at least one trade
ExpirationFrames ==
    UNION {{[i \in 1..n |-> [index |-> i, seconds |-> s[i]]] : s \in [1..n -> Expirations]} :
           n \in 1..MaxLen}

\* s.isdigit(): at least one character, every one a digit
isdigit(s) ==
    /\ s # << >>
    /\ \A i \in 1..Len(s) : s[i] \in DigitChars \cup {SuperscriptTwo}

\* one turn of the loop of choose_expiration_filter: a line is typed
ChooseExpirationFilter ==
    /\ pc = "expiration_prompt"
    /\ prompts < MaxPrompts
    /\ prompts' = prompts + 1
    /\ op' = "choose_expiration_filter"
    /\ \E line \in LinesOf(ExpirationChars) :
         LET user_input == strip(line)
             seconds == int(user_input)
             filtered_df == Select(df, [i \in 1..Len(df) |-> df[i].seconds = seconds.value])
         IN IF user_input = << >>
            THEN /\ pc' = "returned"
                 /\ out' = [user_input |-> user_input, value |-> Some(df)]
            ELSE IF isdigit(user_input) /\ seconds.raised # Ok
            THEN /\ pc' = seconds.raised
                 /\ out' = [user_input |-> user_input, value |-> None]
            ELSE IF isdigit(user_input) /\ seconds.value > 0 /\ filtered_df # << >>
            THEN /\ pc' = "returned"
                 /\ out' = [user_input |-> user_input, value |-> Some(filtered_df)]
            ELSE UNCHANGED <<pc, out>>
    /\ UNCHANGED <<df, df_sorted, current_balance, cache, fetched, now, trades, files>>

InitExpiration ==
    /\ df \in ExpirationFrames
    /\ df_sorted = << >>
    /\ current_balance = 0
    /\ cache = << >>
    /\ fetched = << >>
    /\ now = 0
    /\ op = "none"
    /\ out = None
    /\ trades = None
    /\ files = << >>
    /\ pc = "expiration_prompt"
    /\ prompts = 0

SpecExpiration == InitExpiration /\ [][ChooseExpirationFilter]_vars

(************** data_processor.py: the rate of one currency ***************)
MaxTyped == 3

\* a line typed at a prompt, of at most MaxTyped characters
TypedLines(chars) == UNION {[1..n -> chars] : n \in 0..MaxTyped}

\* float("nan") and float("-inf")
PyNaN == [nan |-> TRUE]
NegInf == [neginf |-> TRUE]

RECURSIVE gcd(_, _)
gcd(a, b) == IF b = 0 THEN a ELSE gcd(b, a % b)

\* the float n / d (d > 0): equal floats are one value
Fraction(n, d) == LET g == gcd(Abs(n), d) IN [num |-> n \div g, den |-> d \div g]

RECURSIVE ten_to(_)
ten_to(k) == IF k = 0 THEN 1 ELSE 10 * ten_to(k - 1)

\* s.replace(old, new), old and new being one character
replace_by(s, old, new) == [i \in 1..Len(s) |-> IF s[i] = old THEN new ELSE s[i]]

\* float(x) for a stripped string of digits, points, signs and other
\* characters: an optional sign, then digits with at most one point and at
\* least one digit, or the words inf and nan; ValueError otherwise
float(x) ==
    LET signed == x # << >> /\ x[1] \in {"+", "-"}
        negative == signed /\ x[1] = "-"
        body == IF signed THEN Tail(x) ELSE x
        points == {i \in 1..Len(body) : body[i] = "."}
        digits == replace(body, ".")
        places == IF points = {} THEN 0 ELSE Len(body) - (CHOOSE i \in points : TRUE)
    IN IF body = <<"n", "a", "n">> THEN [raised |-> Ok, value |-> PyNaN]
       ELSE IF body = <<"i", "n", "f">>
            THEN [raised |-> Ok, value |-> IF negative THEN NegInf ELSE Inf]
            ELSE IF \/ Cardinality(points) > 1
                    \/ digits = << >>
                    \/ \E i \in 1..Len(digits) : digits[i] \notin DigitChars
                 THEN [raised |-> ValueError]
                 ELSE [raised |-> Ok,
                       value |-> Fraction(IF negative THEN 0 - decimal(digits)
                                          ELSE decimal(digits),
                                          ten_to(places))]

\* val >= 0 in place of val > 0
ge_zero(val) == IF "num" \in DOMAIN val THEN val.num >= 0 ELSE val = Inf

\* val > 0 for a float: false for nan
gt_zero(val) == IF "num" \in DOMAIN val THEN val.num > 0 ELSE val = Inf

\* the characters a rate is typed in, and the lines typed at the two prompts
\* of _get_rate_for_currency
RateChars == {"0", "2", ",", "-", " "}
RateLines == TypedLines(RateChars) \cup {<<"i", "n", "f">>, <<"n", "a", "n">>}

\* answer = input(...).strip(); rate = rate_auto if answer == "" else None
confirmed_rate(rate_auto, line) ==
    LET answer == strip(line)
    IN IF answer = << >> THEN Some(Num(rate_auto)) ELSE None

\* one turn of the loop "while rate is None": the value returned, None when
\* the loop goes on
manual_rate(line) ==
    LET manual_input == replace_by(strip(line), ",", ".")
        val == float(manual_input)
    IN IF val.raised = Ok /\ gt_zero(val.value) THEN Some(val.value) ELSE None

\* _get_rate_for_currency(target_currency, curr) up to its first prompt: the
\* rate is asked of get_exchange_rate, and the confirmation prompt follows
\* when there is one, the prompt for the rate when there is none
GetRateForCurrency ==
    /\ pc = "idle"
    /\ op = "none"
    /\ \E target_currency \in BaseCodes, curr \in TargetCodes, response \in Responses :
         LET r == get_exchange_rate(target_currency, curr, cache, now, response)
         IN /\ cache' = r.store
            /\ pc' = IF r.result # None THEN "confirm_prompt" ELSE "rate_prompt"
            /\ out' = [rate_auto |-> r.result, typed |-> None, value |-> None]
    /\ op' = "_get_rate_for_currency"
    /\ prompts' = 0
    /\ UNCHANGED <<df, df_sorted, current_balance, fetched, now, trades, files>>

\* the answer to "Согласны? (Enter=да, иначе введите свой)"
ConfirmRate ==
    /\ pc = "confirm_prompt"
    /\ op = "_get_rate_for_currency"
    /\ \E line \in RateLines :
         LET rate == confirmed_rate(out.rate_auto[1], line)
         IN /\ pc' = IF rate # None THEN "returned" ELSE "rate_prompt"
            /\ out' = [out EXCEPT !.typed = Some(line), !.value = rate]
    /\ prompts' = prompts + 1
    /\ UNCHANGED <<df, df_sorted, current_balance, cache, fetched, now, op, trades, files>>

\* the answer to "Введите курс": a positive number is returned, anything else
\* brings the prompt again
EnterRate ==
    /\ pc = "rate_prompt"
    /\ op = "_get_rate_for_currency"
    /\ prompts < MaxPrompts
    /\ \E line \in RateLines :
         LET rate == manual_rate(line)
         IN /\ pc' = IF rate # None THEN "returned" ELSE "rate_prompt"
            /\ out' = [out EXCEPT !.typed = Some(line), !.value = rate]
    /\ prompts' = prompts + 1
    /\ UNCHANGED <<df, df_sorted, current_balance, cache, fetched, now, op, trades, files>>

InitRate ==
    /\ df = << >>
    /\ InitRest

NextRate == GetRateForCurrency \/ ConfirmRate \/ EnterRate

SpecRate == InitRate /\ [][NextRate]_vars

(************** data_processor.py: handle_currency_conversion **************)
\* the codes of the 'Валюта' column; a cell can be empty (NaN)
USD == <<"U", "S", "D">>
RUB == <<"R", "U", "B">>

\* One trade as handle_currency_conversion reads it: 'Валюта',
\* 'Прибыль числом' and 'Размер сделки'; a trade loses its stake or wins less
\* than its stake.
ConversionRows ==
    {[currency |-> c, profit |-> Num(p), size |-> Num(MaxBalance)] :
        c \in {USD, RUB, NaN}, p \in {0 - MaxProfit, MaxProfit}}

\* the lines typed at the prompts of the conversion
TargetLines == TypedLines({"1", "2", "3"})
ConversionLines == TypedLines({"2", ","})

\* Series.dropna()
dropna(s) == SelectSeq(s, LAMBDA x : x # NaN)

\* Series.unique(): the values in the order of their first appearance
RECURSIVE unique(_)
unique(s) ==
    IF s = << >> THEN << >>
    ELSE LET rest == unique(SubSeq(s, 1, Len(s) - 1))
             last == s[Len(s)]
         IN IF \E i \in 1..Len(rest) : rest[i] = last THEN rest ELSE Append(rest, last)

\* one turn of the loop of _ask_target_currency: the currency returned, None
\* when the loop goes on
chosen_currency(currencies, line) ==
    LET number == int(strip(line))
    IN IF number.raised = Ok /\ 0 <= number.value - 1 /\ number.value - 1 < Len(currencies)
       THEN Some(currencies[number.value])
       ELSE None

\* rates.get(row["Валюта"], 1.0)
rate_of(rates, currency) == IF currency \in DOMAIN rates THEN rates[currency] ELSE Num(1)

\* x * rate in place of x / rate
times(x, rate) ==
    IF IsInf(rate) THEN Inf ELSE Fraction(x.num * rate.num, x.den * rate.den)

\* x / rate for a finite float x and a rate that is not negative; dividing
\* by zero gives an infinity or nan where it does not raise
divide(x, rate) ==
    IF IsInf(rate) THEN Num(0)
    ELSE IF rate.num = 0
         THEN IF x.num > 0 THEN Inf ELSE IF x.num < 0 THEN NegInf ELSE PyNaN
         ELSE Fraction(x.num * rate.den, x.den * rate.num)

\* lines 269-272: the two columns divided row by row, every 'Валюта' set to
\* the target
converted(frame, rates, target_currency) ==
    [i \in 1..Len(frame) |->
        [currency |-> target_currency,
         profit |-> divide(frame[i].profit, rate_of(rates, frame[i].currency)),
         size |-> divide(frame[i].size, rate_of(rates, frame[i].currency))]]

\* the currencies the loop of lines 258-262 has not reached yet
pending(currencies, target_currency, rates) ==
    SelectSeq(currencies, LAMBDA c : c # target_currency /\ c \notin DOMAIN rates)

\* handle_currency_conversion from the choice of the target, or from the rate
\* of a currency, to the next prompt or to the end: the next currency of the
\* loop is asked of get_exchange_rate; after the last one the columns are
\* converted.  The rows of df.apply(axis=1) hold Python floats or numpy
\* floats depending on the pandas build, so that a division by a rate of
\* zero either raises ZeroDivisionError or gives an infinity.
ConvertOrAsk(target_currency, rates) ==
    LET todo == pending(out.currencies, target_currency, rates)
        state == [out EXCEPT !.target_currency = Some(target_currency), !.rates = rates]
        by_zero == \E i \in 1..Len(df) : rate_of(rates, df[i].currency) = Num(0)
        result == converted(df, rates, target_currency)
    IN IF todo = << >>
       THEN /\ cache' = cache
            /\ \E floats \in {"python", "numpy"} :
                 IF by_zero /\ floats = "python"
                 THEN /\ pc' = "ZeroDivisionError"
                      /\ df' = df
                      /\ out' = state
                 ELSE /\ pc' = "returned"
                      /\ df' = result
                      /\ out' = [state EXCEPT !.value = Some(result)]
       ELSE /\ df' = df
            /\ \E response \in Responses :
                 LET r == get_exchange_rate(target_currency, todo[1], cache, now, response)
                 IN /\ cache' = r.store
                    /\ pc' = IF r.result # None THEN "confirm_prompt" ELSE "rate_prompt"
                    /\ out' = [state EXCEPT !.curr = Some(todo[1]), !.rate_auto = r.result]

\* handle_currency_conversion(df) up to its first prompt: a frame with at most
\* one currency is returned as it is
HandleCurrencyConversion ==
    /\ pc = "idle"
    /\ op = "none"
    /\ LET currencies == unique(dropna(Column(df, "currency")))
       IN /\ pc' = IF Len(currencies) <= 1 THEN "returned" ELSE "target_prompt"
          /\ out' = [input |-> df, currencies |-> currencies, target_currency |-> None,
                     rates |-> << >>, curr |-> None, rate_auto |-> None,
                     value |-> IF Len(currencies) <= 1 THEN Some(df) ELSE None]
    /\ op' = "handle_currency_conversion"
    /\ prompts' = 0
    /\ UNCHANGED <<df, df_sorted, current_balance, cache, fetched, now, trades, files>>

\* a line typed at the prompt of _ask_target_currency; prompts counts the
\* lines that were refused
ChooseTargetCurrency ==
    /\ pc = "target_prompt"
    /\ op = "handle_currency_conversion"
    /\ \E line \in TargetLines :
         LET target_currency == chosen_currency(out.currencies, line)
         IN IF target_currency # None
            THEN /\ ConvertOrAsk(target_currency[1], put(<< >>, target_currency[1], Num(1)))
                 /\ prompts' = prompts
            ELSE /\ prompts < MaxPrompts
                 /\ prompts' = prompts + 1
                 /\ UNCHANGED <<df, cache, pc, out>>
    /\ UNCHANGED <<df_sorted, current_balance, fetched, now, op, trades, files>>

\* a line typed at the confirmation prompt of _get_rate_for_currency
ConfirmConversionRate ==
    /\ pc = "confirm_prompt"
    /\ op = "handle_currency_conversion"
    /\ \E line \in ConversionLines :
         LET rate == confirmed_rate(out.rate_auto[1], line)
         IN IF rate # None
            THEN ConvertOrAsk(out.target_currency[1], put(out.rates, out.curr[1], rate[1]))
            ELSE /\ pc' = "rate_prompt"
                 /\ UNCHANGED <<df, cache, out>>
    /\ UNCHANGED <<df_sorted, current_balance, fetched, now, op, trades, files, prompts>>

\* a line typed at the prompt for the rate
EnterConversionRate ==
    /\ pc = "rate_prompt"
    /\ op = "handle_currency_conversion"
    /\ \E line \in ConversionLines :
         LET rate == manual_rate(line)
         IN IF rate # None
            THEN /\ ConvertOrAsk(out.target_currency[1], put(out.rates, out.curr[1], rate[1]))
                 /\ prompts' = prompts
            ELSE /\ prompts < MaxPrompts
                 /\ prompts' = prompts + 1
                 /\ UNCHANGED <<df, cache, pc, out>>
    /\ UNCHANGED <<df_sorted, current_balance, fetched, now, op, trades, files>>

InitConversion ==
    /\ df \in FramesOf(ConversionRows)
    /\ InitRest

NextConversion ==
    \/ HandleCurrencyConversion
    \/ ChooseTargetCurrency
    \/ ConfirmConversionRate
    \/ EnterConversionRate

SpecConversion == InitConversion /\ [][NextConversion]_vars

(************** data_processor.py: choose_time_period_filter ***************)
OverflowError == "OverflowError"

\* the times of day the model tells apart: 00:00:00 (datetime.min.time()),
\* a time during the day, and 23:59:59
Midnight == 0
EndOfDay == 2
Tods == Midnight..EndOfDay

\* A datetime is a day and a time of day, a date is a day alone; as in
\* Python, a date and a datetime are never equal.  The trades were opened on
\* the days of Dates, the last of which is the day the program is run.
Datetimes == [day : Dates, tod : Tods]
Today == MaxDate
now_dt == [day |-> Today, tod |-> EndOfDay - 1]

\* the frames choose_time_period_filter is given: the rows numbered by
\* load_data, with their 'Время открытия'
PeriodFrames ==
    UNION {{[i \in 1..n |-> [index |-> i, opened |-> t[i]]] : t \in [1..n -> Datetimes]} :
           n \in 0..MaxLen}

\* What is typed at 'От' and 'До', stripped, as dateutil reads it: nothing,
\* a date, a date with a time, a time alone, text that is no date, or digits
\* that give a year too large for a C integer.
PeriodInputs ==
    {[kind |-> "empty"], [kind |-> "text"], [kind |-> "digits"]}
    \cup {[kind |-> "date", day |-> d] : d \in Dates}
    \cup {[kind |-> "datetime", day |-> d, tod |-> EndOfDay - 1] : d \in Dates}
    \cup {[kind |-> "time", tod |-> EndOfDay - 1]}

\* parser.parse(inp, dayfirst=True, yearfirst=True): the fields that were
\* not typed are taken from today at 00:00:00; ParserError is a ValueError
parse(inp) ==
    CASE inp.kind = "date" -> [raised |-> Ok, value |-> [day |-> inp.day, tod |-> Midnight]]
      [] inp.kind = "datetime" -> [raised |-> Ok, value |-> [day |-> inp.day, tod |-> inp.tod]]
      [] inp.kind = "time" -> [raised |-> Ok, value |-> [day |-> Today, tod |-> inp.tod]]
      [] inp.kind = "text" -> [raised |-> ValueError]
      [] inp.kind = "digits" -> [raised |-> OverflowError]

\* datetime.date() and datetime.time()
date(dt) == [day |-> dt.day]
time(dt) == dt.tod

\* _parse_date(inp, ref_date, today, is_start=...)
_parse_date(inp, ref_date, today, is_start) ==
    LET parsed == parse(inp)
        moved == IF date(parsed.value) = today /\ time(parsed.value) # Midnight
                 THEN [parsed.value EXCEPT !.day = ref_date.day]
                 ELSE parsed.value
    IN IF parsed.raised # Ok THEN parsed
       ELSE [raised |-> Ok,
             value |-> IF is_start THEN moved ELSE [moved EXCEPT !.tod = EndOfDay]]

\* a <= b for two datetimes
le(a, b) == a.day < b.day \/ (a.day = b.day /\ a.tod <= b.tod)

\* df["Время открытия"].min() of a frame that is not empty
min_opened(frame) ==
    LET opened == {frame[i].opened : i \in 1..Len(frame)}
    IN CHOOSE m \in opened : \A t \in opened : le(m, t)

\* lines 341-345: the rows between the bounds that were given
between(frame, start_dt, end_dt) ==
    LET from_start == IF start_dt # None
                      THEN Select(frame, [i \in 1..Len(frame) |-> le(start_dt[1], frame[i].opened)])
                      ELSE frame
    IN IF end_dt # None
       THEN Select(from_start, [i \in 1..Len(from_start) |-> le(from_start[i].opened, end_dt[1])])
       ELSE from_start

\* choose_time_period_filter(df) up to its first prompt: an empty frame is
\* returned at once
ChooseTimePeriodFilter ==
    /\ pc = "idle"
    /\ op = "none"
    /\ pc' = IF df = << >> THEN "returned" ELSE "period_prompt"
    /\ out' = [from_input |-> None, to_input |-> None, start_dt |-> None, end_dt |-> None,
               message |-> None, filtered_df |-> None, confirmed |-> FALSE,
               value |-> IF df = << >> THEN Some(df) ELSE None]
    /\ op' = "choose_time_period_filter"
    /\ prompts' = 0
    /\ UNCHANGED <<df, df_sorted, current_balance, cache, fetched, now, trades, files>>

\* one turn of the loop up to _confirm_period: the two bounds are typed
EnterPeriod ==
    /\ pc = "period_prompt"
    /\ op = "choose_time_period_filter"
    /\ prompts < MaxPrompts
    /\ prompts' = prompts + 1
    /\ \E from_input \in PeriodInputs, to_input \in PeriodInputs :
         LET min_date == min_opened(df)
             start == IF from_input.kind # "empty"
                      THEN _parse_date(from_input, min_date, now_dt, TRUE)
                      ELSE [raised |-> Ok, value |-> None]
             end == IF start.raised # Ok THEN start
                    ELSE IF to_input.kind # "empty"
                         THEN _parse_date(to_input, now_dt, now_dt, FALSE)
                         ELSE [raised |-> Ok, value |-> None]
             start_dt == IF from_input.kind # "empty" THEN Some(start.value) ELSE None
             end_dt == IF to_input.kind # "empty" THEN Some(end.value) ELSE None
             typed == [out EXCEPT !.from_input = Some(from_input), !.to_input = Some(to_input),
                                  !.start_dt = None, !.end_dt = None, !.message = None,
                                  !.filtered_df = None, !.confirmed = FALSE]
         IN IF end.raised = ValueError
            THEN /\ pc' = "period_prompt"
                 /\ out' = [typed EXCEPT !.message = Some("date_error")]
            ELSE IF end.raised = OverflowError
                 THEN /\ pc' = OverflowError
                      /\ out' = typed
                 ELSE LET filtered_df == between(df, start_dt, end_dt)
                          bounds == [typed EXCEPT !.start_dt = start_dt, !.end_dt = end_dt]
                      IN IF filtered_df = << >>
                         THEN /\ pc' = "period_prompt"
                              /\ out' = [bounds EXCEPT !.message = Some("no_trades")]
                         ELSE /\ pc' = "confirm_prompt"
                              /\ out' = [bounds EXCEPT !.filtered_df = Some(filtered_df)]
    /\ UNCHANGED <<df, df_sorted, current_balance, cache, fetched, now, op, trades, files>>

\* _confirm_period: Enter returns the filtered frame, anything else brings
\* the two prompts again
ConfirmPeriod ==
    /\ pc = "confirm_prompt"
    /\ op = "choose_time_period_filter"
    /\ \E answer \in {<< >>, <<"n">>} :
         IF answer = << >>
         THEN /\ pc' = "returned"
              /\ out' = [out EXCEPT !.confirmed = TRUE, !.value = out.filtered_df]
         ELSE /\ pc' = "period_prompt"
              /\ out' = [out EXCEPT !.confirmed = FALSE]
    /\ UNCHANGED <<df, df_sorted, current_balance, cache, fetched, now, op, trades,
                   files, prompts>>

InitPeriod ==
    /\ df \in PeriodFrames
    /\ InitRest

NextPeriod == ChooseTimePeriodFilter \/ EnterPeriod \/ ConfirmPeriod

SpecPeriod == InitPeriod /\ [][NextPeriod]_vars

(**************** data_processor.py: the three prompt loops ****************)
\* the lines typed at the prompts of choose_otc_filter, get_current_balance
\* and _ask_target_currency
OtcLines == TypedLines({"1", "3", "4", " "})
BalanceLines == RateLines
CurrencyLines == TypedLines({"0", "1", "3", "-", " "})

\* the lists _ask_target_currency is called with: two currencies or more
EUR == <<"E", "U", "R">>
CurrencyLists == {<<USD, RUB>>, <<RUB, USD>>, <<RUB, EUR, USD>>}

\* the prompt of a function is open: the function was just called, or the
\* line before was refused and the error printed
at_prompt(function) ==
    \/ pc = "idle" /\ op = "none"
    \/ pc = "prompt" /\ op = function

\* one turn of the loop of choose_otc_filter
ChooseOtcFilter ==
    /\ at_prompt("choose_otc_filter")
    /\ prompts < MaxPrompts
    /\ \E line \in OtcLines :
         LET filter_choice == strip(line)
             valid == filter_choice \in {<<"1">>, <<"2">>, <<"3">>}
         IN /\ pc' = IF valid THEN "returned" ELSE "prompt"
            /\ out' = [typed |-> line, currencies |-> << >>,
                       value |-> IF valid THEN Some(filter_choice) ELSE None]
    /\ op' = "choose_otc_filter"
    /\ prompts' = prompts + 1
    /\ UNCHANGED <<df, df_sorted, current_balance, cache, fetched, now, trades, files>>

\* one turn of the loop of get_current_balance
GetCurrentBalance ==
    /\ at_prompt("get_current_balance")
    /\ prompts < MaxPrompts
    /\ \E line \in BalanceLines :
         LET user_input == replace_by(strip(line), ",", ".")
             balance == float(user_input)
             valid == balance.raised = Ok /\ gt_zero(balance.value)
         IN /\ pc' = IF valid THEN "returned" ELSE "prompt"
            /\ out' = [typed |-> line, currencies |-> << >>,
                       value |-> IF valid THEN Some(balance.value) ELSE None]
    /\ op' = "get_current_balance"
    /\ prompts' = prompts + 1
    /\ UNCHANGED <<df, df_sorted, current_balance, cache, fetched, now, trades, files>>

\* one turn of the loop of _ask_target_currency(currencies)
AskTargetCurrency ==
    /\ at_prompt("_ask_target_currency")
    /\ prompts < MaxPrompts
    /\ \E line \in CurrencyLines :
         \E currencies \in IF pc = "idle" THEN CurrencyLists ELSE {out.currencies} :
            LET target_currency == chosen_currency(currencies, line)
            IN /\ pc' = IF target_currency # None THEN "returned" ELSE "prompt"
               /\ out' = [typed |-> line, currencies |-> currencies, value |-> target_currency]
    /\ op' = "_ask_target_currency"
    /\ prompts' = prompts + 1
    /\ UNCHANGED <<df, df_sorted, current_balance, cache, fetched, now, trades, files>>

InitPrompts ==
    /\ df = << >>
    /\ InitRest

NextPrompts == ChooseOtcFilter \/ GetCurrentBalance \/ AskTargetCurrency

SpecPrompts == InitPrompts /\ [][NextPrompts]_vars

(************ preprocess_data followed by calculate_main_metrics ***********)
\* calculate_main_metrics on the frame preprocess_data has left
CalculateProcessedMetrics ==
    /\ op = "preprocess_data"
    /\ out' = calculate_main_metrics(df)
    /\ op' = "calculate_main_metrics"
    /\ UNCHANGED <<df, df_sorted, current_balance, cache, fetched, now, dialogue>>

\* the trades as load_data returns them, one after the other in time
InitProcessed ==
    /\ df \in FramesOf({r \in Row : r.result = "" /\ r.currency = "USD"})
    /\ \A i \in 1..Len(df) : df[i].time = i
    /\ InitRest

NextProcessed == PreprocessData \/ CalculateProcessedMetrics

SpecProcessed == InitProcessed /\ [][NextProcessed]_vars

(***************************************************************************)
(* Reference notions the claims are stated in.                             *)
(***************************************************************************)
\* the permutations of 1..n, for every length of a frame
PermsOfLen ==
    [n \in 0..MaxLen |-> {p \in [1..n -> 1..n] : \A i, j \in 1..n : p[i] = p[j] => i = j}]

Perms(n) == PermsOfLen[n]

Permuted(frame, p) == [i \in 1..Len(frame) |-> frame[p[i]]]

DistinctTimes(frame) ==
    \A i, j \in 1..Len(frame) : frame[i].time = frame[j].time => i = j

\* p orders the rows of a frame by open time
Chronological(frame, p) ==
    \A i \in 1..(Len(frame) - 1) : frame[p[i]].time <= frame[p[i + 1]].time

\* the length of the longest run of consecutive rows whose result is result_type
LongestRun(results, result_type) ==
    MaxOf({k \in 0..Len(results) :
              k = 0 \/ \E i \in 1..(Len(results) - k + 1) :
                          \A m \in i..(i + k - 1) : results[m] = result_type})

RECURSIVE SumOver(_, _)
SumOver(rows, value) ==
    IF rows = {} THEN 0
    ELSE LET i == CHOOSE x \in rows : TRUE IN value[i] + SumOver(rows \ {i}, value)

Wins(frame) == Cardinality({i \in 1..Len(frame) : frame[i].result = "Win"})
TotalProfit(frame) == SumOver(1..Len(frame), Column(frame, "profit"))
GrossProfit(frame) == SumOver({i \in 1..Len(frame) : frame[i].profit > 0}, Column(frame, "profit"))
GrossLoss(frame) == Abs(SumOver({i \in 1..Len(frame) : frame[i].profit < 0}, Column(frame, "profit")))
HasLoss(frame) == \E i \in 1..Len(frame) : frame[i].profit < 0

(***************************************************************************)
(* Claims.                                                                 *)
(***************************************************************************)

\* C1: in the chronologically sorted frame returned by preprocess_data for a
\* non-empty frame with distinct open times, the balance of the last row (the
\* most recent trade) equals current_balance.
C1_LastBalanceIsCurrent ==
    (op = "preprocess_data" /\ Len(df_sorted) > 0 /\ DistinctTimes(df_sorted))
        => df_sorted[Len(df_sorted)].balance = current_balance

\* C2: in the chronologically sorted frame returned by preprocess_data with
\* distinct open times, every two consecutive rows i, i+1 satisfy
\* Balance[i] = Balance[i+1] - profit[i+1].
C2_BalanceRecurrence ==
    (op = "preprocess_data" /\ DistinctTimes(df_sorted))
        => \A i \in 1..(Len(df_sorted) - 1) :
              df_sorted[i].balance = df_sorted[i + 1].balance - df_sorted[i + 1].profit

\* the currency pair of a call, whatever the letter case it was spelled in
PairOf(call) == <<upper(call.base), upper(call.target)>>

\* the request failed: it raised, answered with an error status, or its
\* answer holds no rate for the target currency
Failed(call) ==
    \/ call.response.kind \in {"exception", "http_error", "no_rates"}
    \/ call.response.kind = "ok" /\ upper(call.target) \notin DOMAIN call.response.rates

\* C3: whenever the request made for the base currency succeeds and the
\* 'rates' map of the response contains the upper-cased target currency with
\* value r, get_exchange_rate returns r.
C3_ReturnsFetchedRate ==
    (/\ op = "get_exchange_rate"
     /\ out.requested
     /\ out.response.kind = "ok"
     /\ upper(out.target) \in DOMAIN out.response.rates)
        => out.result = Some(out.response.rates[upper(out.target)])

C3_Witness ==
    /\ op = "get_exchange_rate"
    /\ out.requested
    /\ out.response.kind = "ok"
    /\ out.target = <<"e", "u", "r">>
    /\ out.result = Some(1)

\* C4: if the cache holds no fresh entry for the pair and the request fails,
\* get_exchange_rate returns None and leaves the cache unchanged.
C4_FailureNotCached ==
    [][(/\ op' = "get_exchange_rate"
        /\ \A k \in DOMAIN cache :
              k = PairOf(out') => now - cache[k].timestamp >= CACHE_TTL
        /\ Failed(out'))
          => (out'.result = None /\ cache' = cache)]_vars

C4_Witness ==
    /\ op = "get_exchange_rate"
    /\ out.requested
    /\ out.response.kind = "exception"
    /\ out.result = None
    /\ PairOf(out) \in DOMAIN cache
    /\ now - cache[PairOf(out)].timestamp >= CACHE_TTL

\* C5: after a successful fetch of rate r at time t, every later call for
\* the same pair made strictly less than 5 minutes after t returns r without
\* a network request, whatever the letter case of the codes.
C5_FreshEntryServed ==
    [][op' = "get_exchange_rate"
          => \A k \in DOMAIN fetched :
                (k = PairOf(out') /\ now - fetched[k].time < CACHE_TTL)
                    => (out'.result = Some(fetched[k].rate) /\ ~out'.requested)]_vars

C5_Witness ==
    /\ op = "get_exchange_rate"
    /\ ~out.requested
    /\ out.base = <<"u", "s", "d">>
    /\ out.target = <<"e", "u", "r">>
    /\ PairOf(out) \in DOMAIN fetched
    /\ now - fetched[PairOf(out)].time = CACHE_TTL - 1
    /\ out.result = Some(fetched[PairOf(out)].rate)

\* C6: calculate_max_streak returns the length of the longest run of
\* consecutive rows, in row order, whose result equals result_type; 0 for an
\* empty frame and when result_type does not occur.
C6_MaxStreakIsLongestRun ==
    op = "calculate_max_streak"
        => /\ out.value = LongestRun(Column(df, "result"), out.result_type)
           /\ (\A i \in 1..Len(df) : df[i].result # out.result_type) => out.value = 0

C6_Witness ==
    /\ op = "calculate_max_streak"
    /\ Len(df) = 3
    /\ out.result_type = "Win"
    /\ Column(df, "result") = <<"Win", "Loss", "Win">>
    /\ out.value = 1

\* C7: for a non-empty group calculate_asset_streaks returns the number of
\* rows, 100 * wins / rows, the sum of the profits, and the longest runs of
\* Win and of Loss in an ordering of the rows by open time (0 for a result
\* that never occurs).
C7_AssetStreaks ==
    op = "calculate_asset_streaks"
        => /\ out.Sdelok = Len(df)
           /\ out.Vinreyt.den # 0
           /\ RatEq(out.Vinreyt, Div(100 * Wins(df), Len(df)))
           /\ out.Pribyl = TotalProfit(df)
           /\ \E p \in Perms(Len(df)) :
                 /\ Chronological(df, p)
                 /\ out.Seriya_vin = LongestRun(Column(Permuted(df, p), "result"), "Win")
                 /\ out.Seriya_loss = LongestRun(Column(Permuted(df, p), "result"), "Loss")

C7_Witness ==
    /\ op = "calculate_asset_streaks"
    /\ Len(df) = 3
    /\ Column(df, "time") = <<1, 3, 2>>
    /\ Column(df, "result") = <<"Win", "Win", "Loss">>
    /\ out.Seriya_vin = 1
    /\ out.Seriya_loss = 1

\* C8: for a group with pairwise distinct open times every permutation of the
\* input rows yields the same five result values.
C8_PermutationInvariant ==
    (op = "calculate_asset_streaks" /\ DistinctTimes(df))
        => \A p \in Perms(Len(df)) : calculate_asset_streaks(Permuted(df, p)) = {out}

C8_Witness ==
    /\ op = "calculate_asset_streaks"
    /\ Len(df) = 3
    /\ Column(df, "time") = <<3, 1, 2>>
    /\ Column(df, "result") = <<"Win", "Loss", "Win">>
    /\ out.Seriya_vin = 2

\* C9: for a non-empty frame calculate_main_metrics returns total_trades =
\* number of rows, winrate = 100 * wins / total_trades, total_profit = sum of
\* the profits and, when some profit is negative, profit_factor = gross profit
\* / |gross loss|; for an empty frame it returns winrate 0, avg_win 0,
\* avg_loss 0 and currency 'USD' without raising.
C9_MainMetrics ==
    op = "calculate_main_metrics"
        => /\ out.raised = Ok
           /\ Len(df) > 0 =>
                /\ out.total_trades = Len(df)
                /\ out.winrate.den # 0
                /\ RatEq(out.winrate, Div(100 * Wins(df), Len(df)))
                /\ out.total_profit = TotalProfit(df)
                /\ HasLoss(df) =>
                     /\ ~IsInf(out.profit_factor)
                     /\ out.profit_factor.den # 0
                     /\ RatEq(out.profit_factor, Div(GrossProfit(df), GrossLoss(df)))
           /\ Len(df) = 0 =>
                /\ RatEq(out.winrate, Num(0))
                /\ RatEq(out.avg_win, Num(0))
                /\ RatEq(out.avg_loss, Num(0))
                /\ out.currency = "USD"

C9_Witness ==
    /\ op = "calculate_main_metrics"
    /\ Len(df) = 3
    /\ Column(df, "profit") = <<1, -1, 1>>
    /\ Column(df, "result") = <<"Win", "Loss", "Win">>
    /\ out.profit_factor = Div(2, 1)
    /\ out.total_profit = 1

\* C10: calculate_main_metrics never divides by zero: profit_factor is
\* infinity exactly when no trade has a negative profit, and otherwise its
\* divisor |sum of negative profits| is strictly positive.
C10_NoZeroDivision ==
    op = "calculate_main_metrics"
        => /\ out.raised = Ok
           /\ IsInf(out.profit_factor) <=> ~HasLoss(df)
           /\ ~IsInf(out.profit_factor) => out.profit_factor.den > 0
           /\ out.winrate.den > 0
           /\ out.avg_win.den > 0
           /\ out.avg_loss.den > 0

C10_Witness ==
    /\ op = "calculate_main_metrics"
    /\ Len(df) = 2
    /\ Column(df, "profit") = <<0, -1>>
    /\ out.profit_factor = Div(0, 1)

(***************************************************************************)
(* Day statistics.                                                         *)
(***************************************************************************)
TradesOn(frame, d) == {i \in 1..Len(frame) : frame[i].date = d}

WinsOn(frame, d) == {i \in TradesOn(frame, d) : frame[i].result = "Win"}

DayRowOf(stats, d) == {k \in 1..Len(stats) : stats[k].Data = d}

\* the number of hundredths nearest to a / b, for b > 0
IsNearestHundredth(h, a, b) ==
    /\ (2 * h - 1) * b <= 200 * a
    /\ 200 * a <= (2 * h + 1) * b

\* C11 as stated: one row per distinct date, 'Сделок' the number of trades of
\* the date, 'Винрейт' the percentage of Win among them, 'Прибыль' the sum
\* of their profits, and the 'Сделок' values add up to the number of trades.
C11_DayStatsExact ==
    op = "calculate_day_stats"
        => /\ \A d \in Dates :
                Cardinality(DayRowOf(out, d)) = IF TradesOn(df, d) # {} THEN 1 ELSE 0
           /\ \A k \in 1..Len(out) :
                /\ out[k].Sdelok = Cardinality(TradesOn(df, out[k].Data))
                /\ RatEq(out[k].Vinreyt,
                         Div(100 * Cardinality(WinsOn(df, out[k].Data)), out[k].Sdelok))
                /\ RatEq(out[k].Pribyl,
                         Num(SumOver(TradesOn(df, out[k].Data), Column(df, "profit"))))
           /\ SumSeq(Column(out, "Sdelok")) = Len(df)

\* C11 amended: the same, with 'Винрейт' and 'Прибыль' rounded to two decimal
\* places.
C11_DayStatsRounded ==
    op = "calculate_day_stats"
        => /\ \A d \in Dates :
                Cardinality(DayRowOf(out, d)) = IF TradesOn(df, d) # {} THEN 1 ELSE 0
           /\ \A k \in 1..Len(out) :
                /\ out[k].Sdelok = Cardinality(TradesOn(df, out[k].Data))
                /\ out[k].Vinreyt.den = 100
                /\ IsNearestHundredth(out[k].Vinreyt.num,
                                      100 * Cardinality(WinsOn(df, out[k].Data)),
                                      out[k].Sdelok)
                /\ out[k].Pribyl.den = 100
                /\ IsNearestHundredth(out[k].Pribyl.num,
                                      SumOver(TradesOn(df, out[k].Data), Column(df, "profit")),
                                      1)
           /\ SumSeq(Column(out, "Sdelok")) = Len(df)

C11_Witness ==
    /\ op = "calculate_day_stats"
    /\ Len(df) = 3
    /\ Column(df, "date") = <<2, 2, 2>>
    /\ Column(df, "result") = <<"Win", "Loss", "Loss">>
    /\ Len(out) = 1
    /\ out[1].Sdelok = 3
    /\ out[1].Vinreyt = [num |-> 3333, den |-> 100]

(***************************************************************************)
(* Selections of files.                                                    *)
(***************************************************************************)
\* the number of tokens of a selection: one more than its commas
TokenCount(s) == Cardinality({i \in 1..Len(s) : s[i] = ","}) + 1

\* the k-th token: the characters after the (k-1)-th comma and before the
\* k-th, spaces left out
Token(s, k) ==
    Select(s, [i \in 1..Len(s) |->
        /\ s[i] \notin {",", " "}
        /\ Cardinality({j \in 1..(i - 1) : s[j] = ","}) = k - 1])

RECURSIVE Pow10(_)
Pow10(k) == IF k = 0 THEN 1 ELSE 10 * Pow10(k - 1)

IsNumber(t) == t # << >> /\ \A i \in 1..Len(t) : t[i] \in DigitChars

NumberOf(t) == SumOver(1..Len(t), [i \in 1..Len(t) |-> digit(t[i]) * Pow10(Len(t) - i)])

IsInteger(t) == IsNumber(t) \/ (t # << >> /\ t[1] \in {"+", "-"} /\ IsNumber(Tail(t)))

IntegerOf(t) ==
    IF IsNumber(t) THEN NumberOf(t)
    ELSE IF t[1] = "-" THEN 0 - NumberOf(Tail(t)) ELSE NumberOf(Tail(t))

\* comma-separated, pairwise distinct numbers, each in 1..n
WellFormed(s, n) ==
    /\ \A k \in 1..TokenCount(s) :
         IsNumber(Token(s, k)) /\ NumberOf(Token(s, k)) \in 1..n
    /\ \A j, k \in 1..TokenCount(s) :
         j # k => NumberOf(Token(s, j)) # NumberOf(Token(s, k))

\* a number out of 1..n, a repeated number, a token that is not an integer,
\* or an empty token
IllFormed(s, n) ==
    \/ \E k \in 1..TokenCount(s) :
         \/ Token(s, k) = << >>
         \/ ~IsInteger(Token(s, k))
         \/ IntegerOf(Token(s, k)) < 1
         \/ IntegerOf(Token(s, k)) > n
    \/ \E j, k \in 1..TokenCount(s) :
         /\ j # k
         /\ IsInteger(Token(s, j)) /\ IsInteger(Token(s, k))
         /\ IntegerOf(Token(s, j)) = IntegerOf(Token(s, k))

\* C12: for comma-separated, pairwise distinct numbers in 1..len(files),
\* spaces allowed, _parse_selection returns the numbers minus one in the order
\* typed: every index is a valid index of files and none occurs twice.
C12_ParsesSelection ==
    (op = "_parse_selection" /\ WellFormed(out.selection, Len(out.files)))
        => /\ out.result.raised = Ok
           /\ Len(out.result.value) = TokenCount(out.selection)
           /\ \A k \in 1..TokenCount(out.selection) :
                out.result.value[k] = NumberOf(Token(out.selection, k)) - 1
           /\ \A k \in 1..Len(out.result.value) :
                out.result.value[k] + 1 \in DOMAIN out.files
           /\ \A j, k \in 1..Len(out.result.value) :
                out.result.value[j] = out.result.value[k] => j = k

C12_Witness ==
    /\ op = "_parse_selection"
    /\ out.selection = <<"2", ",", " ", "1">>
    /\ Len(out.files) = 2
    /\ out.result = [raised |-> Ok, value |-> <<1, 0>>]

\* C13: _parse_selection raises ValueError, and so returns nothing, whenever
\* the selection holds a number below 1 or above len(files), a repeated
\* number, a token that is not an integer, or an empty token.
C13_RejectsSelection ==
    (op = "_parse_selection" /\ IllFormed(out.selection, Len(out.files)))
        => out.result = [raised |-> ValueError]

C13_Witness ==
    /\ op = "_parse_selection"
    /\ out.selection = <<"1", ",", ",", "2">>
    /\ Len(out.files) = 2
    /\ out.result = [raised |-> ValueError]

(***************************************************************************)
(* The OTC filter.                                                         *)
(***************************************************************************)
HasOTC(asset) ==
    /\ asset # NaN
    /\ \E i \in 1..(Len(asset) - 2) :
         asset[i] = "O" /\ asset[i + 1] = "T" /\ asset[i + 2] = "C"

RowsOf(frame) == {frame[i] : i \in 1..Len(frame)}

\* the rows of the frame are different rows, in increasing index order
InFrameOrder(frame) == \A i, j \in 1..Len(frame) : i < j => frame[i].index < frame[j].index

\* C14: choice '1' returns exactly the rows whose asset name contains 'OTC',
\* '2' exactly the rows whose name does not, '3' every row; the results of
\* '1' and '2' are disjoint and together hold every row; the input frame is
\* left as it was.
C14_OtcFilter ==
    [][op' = "apply_otc_filter"
        => /\ df' = df
           /\ InFrameOrder(out'.value)
           /\ out'.filter_choice = "1"
                => RowsOf(out'.value) = {r \in RowsOf(df) : HasOTC(r.asset)}
           /\ out'.filter_choice = "2"
                => RowsOf(out'.value) = {r \in RowsOf(df) : ~HasOTC(r.asset)}
           /\ out'.filter_choice = "3" => out'.value = df
           /\ RowsOf(apply_otc_filter(df, "1")) \cap RowsOf(apply_otc_filter(df, "2")) = {}
           /\ RowsOf(apply_otc_filter(df, "1")) \cup RowsOf(apply_otc_filter(df, "2"))
                = RowsOf(df)]_vars

C14_Witness ==
    /\ op = "apply_otc_filter"
    /\ out.filter_choice = "2"
    /\ Len(df) = 3
    /\ df[1].asset = <<"E", "U", " ", "O", "T", "C">>
    /\ df[2].asset = <<"o", "t", "c">>
    /\ df[3].asset = NaN
    /\ Column(out.value, "index") = <<2, 3>>

(***************************************************************************)
(* The configuration.                                                      *)
(***************************************************************************)
\* C15: once analyzer.config is loaded, the config object holds the three
\* mandatory sections 'graph_settings', 'colors' and 'analysis_settings',
\* whatever the state of analyzer_config.ini: missing, empty, or present with
\* any set of sections.
C15_MandatorySections ==
    (op = "import_config" /\ out.config.raised = Ok)
        => MandatorySections \subseteq out.config.sections

(***************************************************************************)
(* The rolling win-rate.                                                   *)
(***************************************************************************)
Min(a, b) == IF a <= b THEN a ELSE b

\* max(floor(n * p / 100), 1)
WindowOf(n, p) == IF (n * p) \div 100 >= 1 THEN (n * p) \div 100 ELSE 1

\* the Wins among the last k trades up to trade i
WinsUpTo(frame, i, k) == Cardinality({j \in (i - k + 1)..i : frame[j].result = "Win"})

\* C16: for n trades and the percentage p, the window is
\* w = max(floor(n * p / 100), 1) and Rolling_WR of trade i (counted from 1) is
\* 100 * (Wins among the last min(i, w) trades up to i) / min(i, w); every
\* value lies in [0, 100] and the first is 100 when the first trade is a Win.
C16_RollingWinrate ==
    op = "rolling_winrate"
        => LET w == WindowOf(Len(df), out.roll_pct)
               wr == out.plot.Rolling_WR
           IN /\ out.plot.rolling_window = w
              /\ Len(wr) = Len(df)
              /\ \A i \in 1..Len(df) :
                   /\ wr[i].den > 0
                   /\ RatEq(wr[i], Div(100 * WinsUpTo(df, i, Min(i, w)), Min(i, w)))
                   /\ 0 <= wr[i].num
                   /\ wr[i].num <= 100 * wr[i].den
              /\ (Len(df) > 0 /\ df[1].result = "Win") => RatEq(wr[1], Num(100))

C16_Witness ==
    /\ op = "rolling_winrate"
    /\ out.roll_pct = 67
    /\ Column(df, "result") = <<"Win", "Loss", "Loss">>
    /\ out.plot.rolling_window = 2
    /\ RatEq(out.plot.Rolling_WR[1], Num(100))
    /\ RatEq(out.plot.Rolling_WR[2], Num(50))
    /\ RatEq(out.plot.Rolling_WR[3], Num(0))

(***************************************************************************)
(* Asset statistics.                                                       *)
(***************************************************************************)
\* C17: calculate_asset_stats returns exactly one row per distinct asset, in
\* non-increasing order of 'Винрейт', and the 'Сделок' values add up to the
\* number of input trades.
C17_AssetStats ==
    op = "calculate_asset_stats"
        => /\ out.raised = Ok
           /\ \A a \in StatAssets :
                Cardinality({k \in 1..Len(out.value) : out.value[k].Aktiv = a})
                    = IF \E i \in 1..Len(df) : df[i].asset = a THEN 1 ELSE 0
           /\ \A j, k \in 1..Len(out.value) :
                j < k => out.value[j].Vinreyt.num * out.value[k].Vinreyt.den
                           >= out.value[k].Vinreyt.num * out.value[j].Vinreyt.den
           /\ SumSeq(Column(out.value, "Sdelok")) = Len(df)

(***************************************************************************)
(* A run of main().                                                        *)
(***************************************************************************)
Called(call) == \E i \in 1..Len(out.calls) : out.calls[i] = call

CalledBefore(first, call) ==
    \E i, j \in 1..Len(out.calls) : i < j /\ out.calls[i] = first /\ out.calls[j] = call

XlsxIn(folder) == IF folder = None THEN {} ELSE {e \in folder[1] : e.xlsx}

C20_ExpirationFilter ==
    op = "choose_expiration_filter"
        => /\ pc \in {"expiration_prompt", "returned"}
           /\ pc = "returned"
                => /\ out.user_input = << >> => out.value = Some(df)
                   /\ out.user_input # << >>
                        => /\ IsNumber(out.user_input)
                           /\ NumberOf(out.user_input) > 0
                           /\ InFrameOrder(out.value[1])
                           /\ RowsOf(out.value[1])
                                = {r \in RowsOf(df) : r.seconds = NumberOf(out.user_input)}
                   /\ out.value[1] # << >>

(***************************************************************************)
(* Expiry of cached rates.                                                 *)
(***************************************************************************)
\* C22: a cached exchange rate is never served once it is 5 minutes old or
\* older: a call for a pair whose entry is that old issues a new request;
\* if the request fails the call returns None and not the stale rate; if it
\* succeeds the call returns the new rate and the entry holds the new rate
\* with the time of the call.
C22_StaleEntryNotServed ==
    [][(/\ op' = "get_exchange_rate"
        /\ PairOf(out') \in DOMAIN cache
        /\ now - cache[PairOf(out')].timestamp >= CACHE_TTL)
          => /\ out'.requested
             /\ Failed(out') => out'.result = None
             /\ ~Failed(out')
                  => /\ out'.result = Some(out'.response.rates[upper(out'.target)])
                     /\ cache'[PairOf(out')]
                          = [rate |-> out'.response.rates[upper(out'.target)],
                             timestamp |-> now]]_vars

C22_Witness ==
    /\ op = "get_exchange_rate"
    /\ out.requested
    /\ out.response.kind = "http_error"
    /\ out.result = None
    /\ PairOf(out) \in DOMAIN cache
    /\ cache[PairOf(out)].rate = 1
    /\ now - cache[PairOf(out)].timestamp = CACHE_TTL

(***************************************************************************)
(* The rate of a currency.                                                 *)
(***************************************************************************)
\* C23: in _get_rate_for_currency, when an automatic rate is available and
\* the confirmation prompt is answered with a positive number instead of
\* Enter, that number is the rate returned, and no second prompt follows.
C23_TypedRateTaken ==
    [][(/\ pc = "confirm_prompt"
        /\ op' = "_get_rate_for_currency"
        /\ IsNumber(out'.typed[1])
        /\ NumberOf(out'.typed[1]) > 0)
          => /\ pc' = "returned"
             /\ out'.value = Some(Num(NumberOf(out'.typed[1])))]_vars

(***************************************************************************)
(* The conversion to one currency.                                         *)
(***************************************************************************)
\* the currencies a frame holds, empty cells left out
CurrenciesOf(frame) == {frame[i].currency : i \in 1..Len(frame)} \ {NaN}

\* q is the float x / rate, x being finite
IsQuotient(q, x, rate) ==
    IF IsInf(rate) THEN q = Num(0)
    ELSE IF rate.num = 0 THEN "num" \notin DOMAIN q
         ELSE /\ "num" \in DOMAIN q
              /\ q.num * rate.num * x.den = x.num * rate.den * q.den

\* handle_currency_conversion has returned a frame whose input held two or
\* more currencies
Converted ==
    /\ op = "handle_currency_conversion"
    /\ pc = "returned"
    /\ Cardinality(CurrenciesOf(out.input)) >= 2

\* row i of the returned frame holds the profit and the trade size of row i
\* of the input
Kept(i) ==
    /\ df[i].profit = out.input[i].profit
    /\ df[i].size = out.input[i].size

\* row i of the returned frame holds the profit and the trade size of row i
\* of the input divided by the rate confirmed for the currency of that row
DividedByRate(i) ==
    /\ out.input[i].currency \in DOMAIN out.rates
    /\ IsQuotient(df[i].profit, out.input[i].profit, out.rates[out.input[i].currency])
    /\ IsQuotient(df[i].size, out.input[i].size, out.rates[out.input[i].currency])

\* what holds of every return, whatever the number of currencies
ReturnsOneCurrency ==
    (op = "handle_currency_conversion" /\ pc = "returned")
        => /\ out.value = Some(df)
           /\ Cardinality(CurrenciesOf(df)) <= 1
           /\ Cardinality(CurrenciesOf(out.input)) <= 1
                => /\ df = out.input
                   /\ out.target_currency = None
                   /\ out.rates = << >>
                   /\ prompts = 0
           /\ Cardinality(CurrenciesOf(out.input)) >= 2
                => /\ out.target_currency # None
                   /\ out.target_currency[1] \in CurrenciesOf(out.input)
                   /\ Len(df) = Len(out.input)
                   /\ \A i \in 1..Len(df) : df[i].currency = out.target_currency[1]

\* C21 as stated: when handle_currency_conversion returns, the frame holds
\* at most one currency; after an input of two or more currencies every row
\* is in the chosen target, the rows that were in the target keep their
\* profit and trade size, and every other row holds them divided by the rate
\* confirmed for its currency; an input of at most one currency is returned
\* unchanged and nothing is asked.
C21_Conversion ==
    /\ ReturnsOneCurrency
    /\ Converted
         => \A i \in 1..Len(df) :
               IF out.input[i].currency = out.target_currency[1]
               THEN Kept(i)
               ELSE DividedByRate(i)

\* C21 amended: as C21, the rows that have no currency keeping their profit
\* and trade size like the rows of the target currency.
C21_ConversionOfRowsWithCurrency ==
    /\ ReturnsOneCurrency
    /\ Converted
         => \A i \in 1..Len(df) :
               IF out.input[i].currency \in {out.target_currency[1], NaN}
               THEN Kept(i)
               ELSE DividedByRate(i)

C21_Witness ==
    /\ Converted
    /\ Len(df) = 3
    /\ out.input[1].currency = RUB
    /\ out.input[2].currency = USD
    /\ out.input[3].currency = NaN
    /\ out.target_currency = Some(USD)
    /\ out.rates[RUB] = Fraction(22, 10)
    /\ out.input[1].profit = Num(0 - MaxProfit)
    /\ df[1].profit = Fraction((0 - MaxProfit) * 10, 22)
    /\ df[2].profit = out.input[2].profit
    /\ df[3].size = out.input[3].size

\* C24: every rate handle_currency_conversion divides by is strictly
\* positive, whether the API gave it and Enter confirmed it or the user typed
\* it: the conversion never divides by zero.
C24_RatesPositive ==
    op = "handle_currency_conversion"
        => /\ pc # "ZeroDivisionError"
           /\ \A c \in DOMAIN out.rates : gt_zero(out.rates[c])

(***************************************************************************)
(* The filter by period.                                                   *)
(***************************************************************************)
\* the day a typed bound names: the day typed, today for a time alone
DayTyped(inp) == IF inp.kind = "time" THEN Today ELSE inp.day

\* what was typed names no date
Unparseable(inp) == inp.kind \in {"text", "digits"}

\* datetime a is not later than datetime b
NotLater(a, b) == a.day * (EndOfDay + 1) + a.tod <= b.day * (EndOfDay + 1) + b.tod

\* the open time t lies in the period typed: a blank bound is no bound, the
\* start is the start the function took, the end is 23:59:59 of the end day
InPeriod(t) ==
    /\ out.from_input[1].kind # "empty" => NotLater(out.start_dt[1], t)
    /\ out.to_input[1].kind # "empty"
         => NotLater(t, [day |-> DayTyped(out.to_input[1]), tod |-> EndOfDay])

\* C25: choose_time_period_filter returns an empty frame at once, without a
\* prompt; for a frame that is not empty it returns only after the period
\* was confirmed, and the frame returned is not empty and holds exactly the
\* input rows with start <= open time <= end, a blank bound being no bound
\* and a given end being 23:59:59 of the end date; a date that cannot be
\* parsed, an empty result and a refused confirmation bring the prompts
\* again, the frame being as it was.
C25_TimePeriodFilter ==
    op = "choose_time_period_filter"
        => /\ pc \in {"period_prompt", "confirm_prompt", "returned"}
           /\ (pc = "returned" /\ df = << >>)
                => /\ out.value = Some(df)
                   /\ out.from_input = None
                   /\ prompts = 0
           /\ (pc = "returned" /\ df # << >>)
                => /\ out.confirmed
                   /\ out.value # None
                   /\ out.value[1] # << >>
                   /\ InFrameOrder(out.value[1])
                   /\ RowsOf(out.value[1]) = {r \in RowsOf(df) : InPeriod(r.opened)}
           /\ (/\ out.from_input # None
               /\ \/ Unparseable(out.from_input[1])
                  \/ Unparseable(out.to_input[1])
                  \/ out.message # None
                  \/ (out.filtered_df # None /\ ~out.confirmed /\ pc # "confirm_prompt"))
                => pc = "period_prompt"

\* the earliest open time of a frame
Earliest(frame) ==
    CHOOSE m \in RowsOf(frame) : \A r \in RowsOf(frame) : NotLater(m.opened, r.opened)

\* C26: when the input of _parse_date parses to today's date with a time of
\* day other than 00:00:00, as a time alone does, the year, month and day of
\* the result are those of ref_date (for the start bound, the date of the
\* earliest trade) and the time is the time typed.
C26_TimeAloneOnRefDate ==
    (/\ op = "choose_time_period_filter"
     /\ out.start_dt # None
     /\ out.from_input[1].kind \in {"time", "datetime"}
     /\ DayTyped(out.from_input[1]) = Today
     /\ out.from_input[1].tod # Midnight)
        => out.start_dt[1] = [day |-> Earliest(df).opened.day, tod |-> out.from_input[1].tod]

(***************************************************************************)
(* The prompt loops.                                                       *)
(***************************************************************************)
\* the line without the spaces around it
Trim(s) ==
    LET inked == {i \in 1..Len(s) : s[i] # " "}
    IN IF inked = {} THEN << >>
       ELSE SubSeq(s, CHOOSE i \in inked : \A j \in inked : i <= j,
                      CHOOSE i \in inked : \A j \in inked : j <= i)

\* a numeral without its sign, the places of its decimal marks, its digits
Unsigned(t) == IF t # << >> /\ t[1] \in {"+", "-"} THEN Tail(t) ELSE t
Marks(t) == {i \in 1..Len(t) : t[i] \in {",", "."}}
DigitsOf(t) == SelectSeq(t, LAMBDA c : c \in DigitChars)
Places(t) == IF Marks(t) = {} THEN 0 ELSE Len(t) - (CHOOSE i \in Marks(t) : TRUE)

\* t is a decimal numeral: an optional sign, then digits with at most one
\* decimal point or comma among them
IsDecimal(t) ==
    /\ Cardinality(Marks(Unsigned(t))) <= 1
    /\ DigitsOf(Unsigned(t)) # << >>
    /\ \A i \in 1..Len(Unsigned(t)) : Unsigned(t)[i] \in DigitChars \cup {",", "."}

\* t names a number greater than 0: a decimal numeral that is not negative
\* and not zero, or infinity
NamesPositive(t) ==
    \/ IsDecimal(t) /\ t[1] # "-" /\ NumberOf(DigitsOf(t)) > 0
    \/ Unsigned(t) = <<"i", "n", "f">> /\ t[1] # "-"

\* the float v is the number t names
IsValueOf(v, t) ==
    IF IsDecimal(t)
    THEN /\ "num" \in DOMAIN v
         /\ v.num * Pow10(Places(Unsigned(t))) = NumberOf(DigitsOf(t)) * v.den
    ELSE v = Inf

\* C27: the prompt loops recover from bad input only by asking again:
\* choose_otc_filter returns only '1', '2' or '3', get_current_balance only
\* a number greater than 0 (typed with a decimal comma or point),
\* _ask_target_currency only an element of the list offered; any other line
\* is answered with the error and the prompt, and each loop ends with the
\* first valid line.
C27_PromptLoops ==
    /\ op \in {"choose_otc_filter", "get_current_balance", "_ask_target_currency"}
         => /\ pc \in {"prompt", "returned"}
            /\ pc = "returned" <=> out.value # None
    /\ op = "choose_otc_filter"
         => /\ pc = "returned" <=> Trim(out.typed) \in {<<"1">>, <<"2">>, <<"3">>}
            /\ pc = "returned" => out.value = Some(Trim(out.typed))
    /\ op = "get_current_balance"
         => /\ pc = "returned" <=> NamesPositive(Trim(out.typed))
            /\ pc = "returned" => IsValueOf(out.value[1], Trim(out.typed))
    /\ op = "_ask_target_currency"
         => /\ pc = "returned"
                 <=> /\ IsInteger(Trim(out.typed))
                     /\ IntegerOf(Trim(out.typed)) \in 1..Len(out.currencies)
            /\ pc = "returned"
                 => out.value = Some(out.currencies[IntegerOf(Trim(out.typed))])

C27_Witness ==
    /\ op = "get_current_balance"
    /\ pc = "returned"
    /\ prompts = 2
    /\ out.typed = <<"2", ",", "2">>
    /\ out.value = Some(Fraction(22, 10))

(***************************************************************************)
(* Wins, losses and the sign of the profit.                                *)
(***************************************************************************)
Losses(frame) == Cardinality({i \in 1..Len(frame) : frame[i].result = "Loss"})
Positives(frame) == Cardinality({i \in 1..Len(frame) : frame[i].profit > 0})
Negatives(frame) == Cardinality({i \in 1..Len(frame) : frame[i].profit < 0})

\* C28: after preprocess_data every row's result is 'Win' exactly when its
\* profit is > 0 and 'Loss' otherwise, a profit of zero being a Loss; so in
\* calculate_main_metrics the Wins are as many as the positive profits (the
\* winrate is their share), Wins + Losses = total_trades, and the Losses are
\* at least as many as the negative profits that avg_loss averages.
C28_WinLoss ==
    /\ op \in {"preprocess_data", "calculate_main_metrics"}
         => \A i \in 1..Len(df) :
               df[i].result = IF df[i].profit > 0 THEN "Win" ELSE "Loss"
    /\ op = "calculate_main_metrics"
         => /\ Wins(df) = Positives(df)
            /\ Wins(df) + Losses(df) = out.total_trades
            /\ Losses(df) >= Negatives(df)
            /\ out.total_trades > 0
                 => RatEq(out.winrate, Div(100 * Positives(df), out.total_trades))
            /\ Negatives(df) > 0
                 => RatEq(out.avg_loss, Div(GrossLoss(df), Negatives(df)))

\* a trade of zero profit: more Losses than negative profits
C28_Witness ==
    /\ op = "calculate_main_metrics"
    /\ Len(df) = 3
    /\ df[2].profit = 0
    /\ df[2].result = "Loss"
    /\ Losses(df) = 2
    /\ Negatives(df) = 1
    /\ Wins(df) = 1
    /\ RatEq(out.avg_loss, Num(MaxProfit))

====
